---------------------------- MODULE Spec2Model ----------------------------
(***************************************************************************)
(* alloc8: allocator interposition runtime.                                *)
(*                                                                         *)
(* The module holds state machines over disjoint groups of variables:      *)
(*   SpecThreads  - the thread lifecycle controller                        *)
(*                  (linux_threads.cpp, mac_threads.cpp, win_threads.cpp)  *)
(*   SpecRedirect - the early-load IAT redirect (alloc8_redirect)          *)
(*   SpecDetours  - the Detours replacement functions and DllMain          *)
(*   SpecFork     - the fork handlers (gnu_wrapper.cpp, mac_wrapper.cpp)   *)
(*   SpecSingleton - the allocator singleton of HeapRedirect               *)
(*   SpecWrappers - realloc, calloc, reallocarray and free over the Bridge *)
(***************************************************************************)
EXTENDS Integers, Sequences, FiniteSets, TLC

(***************************************************************************)
(* Bounds                                                                  *)
(***************************************************************************)
MaxThreads == 2

MaxRecords == 2

\* blocks the redirect model hands out
MaxBlocks == 2

\* CRT libraries the loaded modules import from
MaxImports == 2

\* pointers of the Detours model
MaxPtrs == 3

\* largest request and usable size of the Detours model
MaxSize == 2

\* child processes of the fork model
MaxProcs == 2

\* forks a process starts in the fork model
MaxForks == 2

\* threads that call the singleton accessor
MaxCallers == 2

\* accessor calls per thread
MaxCalls == 2

\* blocks of the allocator behind the wrappers
MaxSlots == 2

\* largest usable size of a block, in bytes
MaxUsable == 2

\* width of size_t in bits
SizeBits == 2

NULL == 0

MainThread == 0

Threads == 0..MaxThreads

Records == 1..MaxRecords

VARIABLES
  platform,                    \* "posix" (pthread interposition) or "windows" (DllMain notifications)
  has_init,                    \* &xxthread_init != nullptr
  has_cleanup,                 \* &xxthread_cleanup != nullptr
  has_flag,                    \* &xxthread_created_flag != nullptr
  allocator_ready,             \* the priority-101 initializer has run
  alloc8_pthread_ready,        \* std::atomic<bool>, latest value in modification order
  flagMsgView,                 \* what the release-store of the flag publishes
  xxthread_created_flag,       \* allocator-provided flag (or its /ALTERNATENAME default)
  alloc8_internal_thread_flag, \* controller's fallback flag
  pc,                          \* position of every thread
  how,                         \* how the thread was started
  endedBy,                     \* how the thread ended
  hist,                        \* per thread: hook calls and user routine begin/end, in order
  warg,                        \* the wrapper pointer a thread holds (local or trampoline arg)
  threadView,                  \* allocator constructor effects are visible in the thread
  flagSeen,                    \* the store of the flag happens-before the thread's next load
  recState,                    \* per wrapper record: "unalloc", "live", "released"
  recFrees,                    \* per wrapper record: number of xxfree calls on it
  recUAF,                      \* a wrapper record was read or written while not live
  \* ---- early-load redirect (alloc8_redirect) ----
  rphase,                      \* "loading", "running" or "detached" (redirect DLL's DllMain)
  imported,                    \* the CRT libraries some loaded module imports from
  iat,                         \* per imported CRT library: its import slots hold "orig" or "hook"
  orig,                        \* orig_malloc, orig_free, ...: the captured CRT library, or "null"
  p_xx,                        \* p_xxmalloc, p_xxfree, ... are registered (non-null)
  g_redirectEnabled,
  g_initialized,
  rblk,                        \* per block: "unused", "freed", or the allocator that owns it
  crtToBridge,                 \* a CRT pointer was passed to a registered Bridge function
  bridgeToCrt,                 \* a Bridge pointer was passed to an original CRT function
  enabledAtDetach,             \* g_redirectEnabled when process detach began
  lateRoute,                   \* targets of the hooked calls made after process detach began
  \* ---- Detours variant ----
  dphase,                      \* "loading", "running" or "detached"
  attached,                    \* DetourEntry.attached of the CRT detours
  dptr,                        \* per pointer: class and usable size
  dlast,                       \* the last Detour_* call: arguments, probe, effects, result
  \* ---- fork handlers ----
  fphase,                      \* per process: "none", "run", "prepared", "parent", "child"
  flock,                       \* per process: allocator lock is "free", held by "handler" or "other"
  fheld,                       \* per process: handler locks taken or inherited
  funlocks,                    \* per process: handler unlocks performed
  fbad,                        \* per process: a handler unlocked a lock no handler held
  \* ---- allocator singleton ----
  heap,                        \* the static pointer heap: "null" or "buffer"
  sguard,                      \* guard of the static: "uninit", "running" or "done"
  sctor,                       \* constructor runs of the allocator
  spc,                         \* per caller: "idle", "ctor" or "ret"
  svia,                        \* per caller: the accessor it last called
  sret,                        \* per caller: the value it is about to return
  scalls,                      \* per caller: accessor calls completed
  sgot,                        \* per caller: the addresses the accessor returned
  sexit,                       \* the process has run its exit handlers
  sdestroyed,                  \* the allocator's destructor has run
  \* ---- uniform-semantics wrappers ----
  wheap,                       \* per block of the allocator: state, usable size, contents
  wlast                        \* the wrapper call that has just returned, its result and
                               \* the calls it made

thrVars == <<platform, has_init, has_cleanup, has_flag, allocator_ready,
             alloc8_pthread_ready, flagMsgView,
             xxthread_created_flag, alloc8_internal_thread_flag, pc, how,
             endedBy, hist, warg, threadView, flagSeen, recState, recFrees, recUAF>>

cfgVars == <<platform, has_init, has_cleanup, has_flag>>

flagVars == <<xxthread_created_flag, alloc8_internal_thread_flag>>

readyVars == <<allocator_ready, alloc8_pthread_ready, flagMsgView>>

recVars == <<recState, recFrees, recUAF>>

redVars == <<rphase, imported, iat, orig, p_xx, g_redirectEnabled, g_initialized,
             rblk, crtToBridge, bridgeToCrt, enabledAtDetach, lateRoute>>

detVars == <<dphase, attached, dptr, dlast>>

forkVars == <<fphase, flock, fheld, funlocks, fbad>>

singVars == <<heap, sguard, sctor, spc, svia, sret, scalls, sgot, sexit, sdestroyed>>

wrapVars == <<wheap, wlast>>

vars == <<thrVars, redVars, detVars, forkVars, singVars, wrapVars>>

notThr == <<redVars, detVars, forkVars, singVars, wrapVars>>

notRed == <<thrVars, detVars, forkVars, singVars, wrapVars>>

notDet == <<thrVars, redVars, forkVars, singVars, wrapVars>>

notFork == <<thrVars, redVars, detVars, singVars, wrapVars>>

notSing == <<thrVars, redVars, detVars, forkVars, wrapVars>>

notWrap == <<thrVars, redVars, detVars, forkVars, singVars>>

(***************************************************************************)
(* Thread lifecycle controller                                             *)
(***************************************************************************)

\* has_thread_hooks(): either hook is supplied
has_thread_hooks == has_init \/ has_cleanup

\* get_thread_created_flag(): which variable the controller writes
get_thread_created_flag ==
  IF platform = "windows" \/ has_flag THEN "xxthread_created_flag"
                                      ELSE "alloc8_internal_thread_flag"

\* the value of the 'any thread created' flag the allocator consults
TheFlag ==
  IF get_thread_created_flag = "xxthread_created_flag"
    THEN xxthread_created_flag ELSE alloc8_internal_thread_flag

\* *flag = 1
SetFlag ==
  IF get_thread_created_flag = "xxthread_created_flag"
    THEN /\ xxthread_created_flag' = 1
         /\ UNCHANGED alloc8_internal_thread_flag
    ELSE /\ alloc8_internal_thread_flag' = 1
         /\ UNCHANGED xxthread_created_flag

\* values an acquire-load of the flag may return in thread t: the latest
\* store once it is ordered before the load, else any value stored so far
ReadReady(t) ==
  IF flagSeen[t] THEN {TRUE}
  ELSE IF alloc8_pthread_ready THEN {TRUE, FALSE} ELSE {FALSE}

pthread_hooks_ready_relaxed(view, r) == view

\* pthread_hooks_ready(): load(memory_order_acquire); a load that reads the
\* released value acquires the view published with it
pthread_hooks_ready(view, r) == IF r THEN view \/ flagMsgView ELSE view

\* effect of a load returning r in thread c on c's views; the threads in N
\* are started by c after the load and inherit c's views
Views(c, r, N) ==
  /\ threadView' = [x \in Threads |->
        IF x = c \/ x \in N THEN pthread_hooks_ready(threadView[c], r)
                            ELSE threadView[x]]
  /\ flagSeen' = [x \in Threads |->
        IF x = c \/ x \in N THEN flagSeen[c] \/ r ELSE flagSeen[x]]

viewVars == <<threadView, flagSeen>>

thVars == <<pc, how, endedBy, hist, warg>>

\* priority-101 initializer (alloc8_early_zone_init): the allocator is ready
alloc8_early_zone_init ==
  /\ pc[MainThread] = "user"
  /\ ~allocator_ready
  /\ allocator_ready' = TRUE
  /\ threadView' = [threadView EXCEPT ![MainThread] = TRUE]
  /\ UNCHANGED <<notThr, cfgVars, alloc8_pthread_ready, flagMsgView,
                 flagVars, thVars, flagSeen, recVars>>

HooksInitAnyTime == TRUE

\* constructor(200) runs after constructor(101); Alloc8ThreadHooksInit is
\* called after malloc is ready
HooksInitOrder == allocator_ready

\* alloc8_pthread_hooks_init / Alloc8ThreadHooksInit: release-store of true
alloc8_pthread_hooks_init ==
  /\ pc[MainThread] = "user"
  /\ HooksInitOrder
  /\ ~alloc8_pthread_ready
  /\ alloc8_pthread_ready' = TRUE
  /\ flagMsgView' = threadView[MainThread]
  /\ flagSeen' = [flagSeen EXCEPT ![MainThread] = TRUE]
  /\ UNCHANGED <<notThr, cfgVars, allocator_ready, flagVars, thVars, threadView, recVars>>

\* the real creation primitive called by c: either a new thread t starts at
\* startpc with argument w, or the primitive fails and c continues at failpc
RealCreate(c, r, k, startpc, h, w, okpc, failpc) ==
  \/ \E t \in Threads :
       /\ pc[t] = "none"
       /\ \A u \in Threads : u < t => pc[u] # "none"
       /\ pc' = [pc EXCEPT ![t] = startpc, ![c] = okpc]
       /\ how' = [how EXCEPT ![t] = k]
       /\ hist' = [hist EXCEPT ![t] = h]
       /\ warg' = [warg EXCEPT ![t] = w, ![c] = IF okpc = "user" THEN NULL ELSE warg[c]]
       /\ Views(c, r, {t})
       /\ UNCHANGED endedBy
  \/ /\ pc' = [pc EXCEPT ![c] = failpc]
     /\ Views(c, r, {})
     /\ UNCHANGED <<how, hist, warg, endedBy>>

\* xxmalloc(sizeof(ThreadWrapper)): a block not handed out before (none is
\* left when the allocator is exhausted, and xxmalloc returns null)
FreshRecords ==
  {r \in Records : recState[r] = "unalloc" /\
                   \A q \in Records : q < r => recState[q] # "unalloc"}

UseHooksIgnoringReady(r) == has_thread_hooks

\* the negation of the pass-through test of alloc8_pthread_create
UseHooks(r) == r /\ has_thread_hooks

\* alloc8_pthread_create up to the call of the real primitive with the
\* trampoline: pass-through, or set the flag and allocate and fill the wrapper
\* (falling back to direct creation when xxmalloc returns null)
alloc8_pthread_create(c) ==
  /\ platform = "posix"
  /\ pc[c] = "user"
  /\ \E r \in ReadReady(c) :
       IF ~UseHooks(r)
         THEN /\ RealCreate(c, r, "passthrough", "user", <<"user_begin">>, NULL,
                            "user", "user")
              /\ UNCHANGED <<flagVars, recVars>>
         ELSE /\ SetFlag
              /\ \/ /\ RealCreate(c, r, "fallback", "user", <<"user_begin">>, NULL,
                                  "user", "user")
                    /\ UNCHANGED recVars
                 \/ \E w \in FreshRecords :
                      /\ recState' = [recState EXCEPT ![w] = "live"]
                      /\ warg' = [warg EXCEPT ![c] = w]
                      /\ pc' = [pc EXCEPT ![c] = "cr_call"]
                      /\ Views(c, r, {})
                      /\ UNCHANGED <<recFrees, recUAF, how, hist, endedBy>>
  /\ UNCHANGED <<notThr, cfgVars, readyVars>>

CreationFailedAlways(result) == TRUE

\* if (result != 0)
CreationFailed(result) == result # 0

\* where the creating thread continues when the primitive returned result
AfterCreate(result) == IF CreationFailed(result) THEN "cr_free" ELSE "user"

\* alloc8_pthread_create: real creation primitive with the trampoline
Create_Call(c) ==
  /\ pc[c] = "cr_call"
  /\ RealCreate(c, FALSE, "trampoline", "tr_read", <<>>, warg[c],
                AfterCreate(0), AfterCreate(1))
  /\ UNCHANGED <<notThr, cfgVars, readyVars, flagVars, recVars>>

\* xxfree(w)
xxfree(w) ==
  /\ recFrees' = [recFrees EXCEPT ![w] = recFrees[w] + 1]
  /\ recState' = [recState EXCEPT ![w] = "released"]

\* alloc8_pthread_create: creation failed, free the wrapper; return
Create_Free(c) ==
  /\ pc[c] = "cr_free"
  /\ xxfree(warg[c])
  /\ pc' = [pc EXCEPT ![c] = "user"]
  /\ warg' = [warg EXCEPT ![c] = NULL]
  /\ UNCHANGED <<notThr, cfgVars, readyVars, flagVars, how, hist, endedBy, viewVars, recUAF>>

\* alloc8_thread_trampoline: read user_func and user_arg from the wrapper,
\* then xxfree(wrapper)
Tr_Read(t) ==
  /\ pc[t] = "tr_read"
  /\ recUAF' = (recUAF \/ recState[warg[t]] # "live")
  /\ xxfree(warg[t])
  /\ pc' = [pc EXCEPT ![t] = "tr_init"]
  /\ warg' = [warg EXCEPT ![t] = NULL]
  /\ UNCHANGED <<notThr, cfgVars, readyVars, flagVars, how, hist, endedBy, viewVars>>

\* alloc8_thread_trampoline: xxthread_init() if supplied, then user_func
Tr_Init(t) ==
  /\ pc[t] = "tr_init"
  /\ hist' = [hist EXCEPT ![t] =
        (IF has_init THEN Append(hist[t], "init") ELSE hist[t]) \o <<"user_begin">>]
  /\ pc' = [pc EXCEPT ![t] = "user"]
  /\ UNCHANGED <<notThr, cfgVars, readyVars, flagVars,
                 how, endedBy, warg, viewVars, recVars>>

\* the user's start routine returns
UserReturn(t) ==
  /\ t # MainThread
  /\ pc[t] = "user"
  /\ hist' = [hist EXCEPT ![t] = Append(hist[t], "user_end")]
  /\ endedBy' = [endedBy EXCEPT ![t] = "return"]
  /\ pc' = [pc EXCEPT ![t] = CASE how[t] = "trampoline" -> "tr_cleanup"
                                [] how[t] = "winthread" -> "w_detach"
                                [] OTHER -> "done"]
  /\ UNCHANGED <<notThr, cfgVars, readyVars, flagVars,
                 how, warg, viewVars, recVars>>

TrampolineNoCleanup(h) == h

\* alloc8_thread_trampoline: xxthread_cleanup() if supplied
TrampolineCleanup(h) == IF has_cleanup THEN Append(h, "cleanup") ELSE h

\* alloc8_thread_trampoline: after user_func returned
Tr_Cleanup(t) ==
  /\ pc[t] = "tr_cleanup"
  /\ hist' = [hist EXCEPT ![t] = TrampolineCleanup(hist[t])]
  /\ pc' = [pc EXCEPT ![t] = "done"]
  /\ UNCHANGED <<notThr, cfgVars, readyVars, flagVars,
                 how, endedBy, warg, viewVars, recVars>>

\* alloc8_pthread_exit: cleanup hook if ready and supplied, then the real
\* exit primitive, which does not return
alloc8_pthread_exit(t) ==
  /\ platform = "posix"
  /\ pc[t] = "user"
  /\ \E r \in ReadReady(t) :
       /\ hist' = [hist EXCEPT ![t] =
             IF r /\ has_cleanup THEN hist[t] \o <<"user_end", "cleanup">>
                                 ELSE Append(hist[t], "user_end")]
       /\ Views(t, r, {})
  /\ endedBy' = [endedBy EXCEPT ![t] = "exit"]
  /\ pc' = [pc EXCEPT ![t] = "done"]
  /\ UNCHANGED <<notThr, cfgVars, readyVars, flagVars, how, warg, recVars>>

\* platform cancellation (pthread_cancel acted on in the user routine,
\* TerminateThread): the thread ends without returning to its caller
Cancel(t) ==
  /\ t # MainThread
  /\ pc[t] = "user"
  /\ endedBy' = [endedBy EXCEPT ![t] = "cancel"]
  /\ pc' = [pc EXCEPT ![t] = "done"]
  /\ UNCHANGED <<notThr, cfgVars, readyVars, flagVars,
                 how, hist, warg, viewVars, recVars>>

\* Windows: a thread is created; its DLL_THREAD_ATTACH notification is pending
WinCreateThread(c) ==
  /\ platform = "windows"
  /\ pc[c] = "user"
  /\ \E t \in Threads :
       /\ pc[t] = "none"
       /\ \A u \in Threads : u < t => pc[u] # "none"
       /\ pc' = [pc EXCEPT ![t] = "w_attach"]
       /\ how' = [how EXCEPT ![t] = "winthread"]
       /\ Views(c, FALSE, {t})
  /\ UNCHANGED <<notThr, cfgVars, readyVars, flagVars,
                 endedBy, hist, warg, recVars>>

\* Alloc8OnThreadAttach, then the thread's start routine begins
Alloc8OnThreadAttach(t) ==
  /\ pc[t] = "w_attach"
  /\ \E r \in ReadReady(t) :
       /\ IF ~r
            THEN /\ hist' = [hist EXCEPT ![t] = Append(hist[t], "user_begin")]
                 /\ UNCHANGED flagVars
            ELSE /\ SetFlag
                 /\ hist' = [hist EXCEPT ![t] =
                       (IF has_init THEN Append(hist[t], "init") ELSE hist[t])
                          \o <<"user_begin">>]
       /\ Views(t, r, {})
  /\ pc' = [pc EXCEPT ![t] = "user"]
  /\ UNCHANGED <<notThr, cfgVars, readyVars, how, endedBy,
                 warg, recVars>>

\* Windows: the thread calls ExitThread; DLL_THREAD_DETACH is pending
WinExitThread(t) ==
  /\ platform = "windows"
  /\ t # MainThread
  /\ pc[t] = "user"
  /\ hist' = [hist EXCEPT ![t] = Append(hist[t], "user_end")]
  /\ endedBy' = [endedBy EXCEPT ![t] = "exit"]
  /\ pc' = [pc EXCEPT ![t] = "w_detach"]
  /\ UNCHANGED <<notThr, cfgVars, readyVars, flagVars,
                 how, warg, viewVars, recVars>>

\* Alloc8OnThreadDetach
Alloc8OnThreadDetach(t) ==
  /\ pc[t] = "w_detach"
  /\ \E r \in ReadReady(t) :
       /\ hist' = [hist EXCEPT ![t] =
             IF r /\ has_cleanup THEN Append(hist[t], "cleanup") ELSE hist[t]]
       /\ Views(t, r, {})
  /\ pc' = [pc EXCEPT ![t] = "done"]
  /\ UNCHANGED <<notThr, cfgVars, readyVars, flagVars,
                 how, endedBy, warg, recVars>>

ThreadsInit ==
  /\ platform \in {"posix", "windows"}
  /\ has_init \in BOOLEAN
  /\ has_cleanup \in BOOLEAN
  /\ has_flag \in (IF platform = "windows" THEN {TRUE} ELSE BOOLEAN)
  /\ allocator_ready = FALSE
  /\ alloc8_pthread_ready = FALSE
  /\ flagMsgView = FALSE
  /\ xxthread_created_flag = 0
  /\ alloc8_internal_thread_flag = 0
  /\ pc = [t \in Threads |-> IF t = MainThread THEN "user" ELSE "none"]
  /\ how = [t \in Threads |-> IF t = MainThread THEN "main" ELSE "none"]
  /\ endedBy = [t \in Threads |-> "none"]
  /\ hist = [t \in Threads |-> IF t = MainThread THEN <<"user_begin">> ELSE <<>>]
  /\ warg = [t \in Threads |-> NULL]
  /\ threadView = [t \in Threads |-> FALSE]
  /\ flagSeen = [t \in Threads |-> FALSE]
  /\ recState = [r \in Records |-> "unalloc"]
  /\ recFrees = [r \in Records |-> 0]
  /\ recUAF = FALSE

\* the thread controller at rest while another state machine is explored
ThreadsIdle == ThreadsInit /\ platform = "posix" /\ ~has_init /\ ~has_cleanup /\ ~has_flag

NextThreads ==
  \/ alloc8_early_zone_init
  \/ alloc8_pthread_hooks_init
  \/ \E t \in Threads : alloc8_pthread_create(t)
  \/ \E t \in Threads : Create_Call(t)
  \/ \E t \in Threads : Create_Free(t)
  \/ \E t \in Threads : Tr_Read(t)
  \/ \E t \in Threads : Tr_Init(t)
  \/ \E t \in Threads : UserReturn(t)
  \/ \E t \in Threads : Tr_Cleanup(t)
  \/ \E t \in Threads : alloc8_pthread_exit(t)
  \/ \E t \in Threads : Cancel(t)
  \/ \E t \in Threads : WinCreateThread(t)
  \/ \E t \in Threads : Alloc8OnThreadAttach(t)
  \/ \E t \in Threads : WinExitThread(t)
  \/ \E t \in Threads : Alloc8OnThreadDetach(t)


(***************************************************************************)
(* Properties of the thread lifecycle controller                           *)
(***************************************************************************)

IsHook(e) == e \in {"init", "cleanup"}

IsLife(e) == e \in {"init", "user_begin", "user_end", "cleanup"}

\* the hook calls a thread has made, in order
HookCalls(t) == SelectSeq(hist[t], IsHook)

\* hook calls and user routine begin/end of a thread, in order
Life(t) == SelectSeq(hist[t], IsLife)

FullLife == <<"init", "user_begin", "user_end", "cleanup">>

IsPrefix(s, f) == Len(s) <= Len(f) /\ s = SubSeq(f, 1, Len(s))

NewThreads == {t \in Threads : pc[t] = "none" /\ pc'[t] # "none"}

\* C1: while thread-hooks-ready is false, or when the allocator supplies
\* neither hook, no step runs xxthread_init or xxthread_cleanup, none
\* allocates a wrapper record, every thread that pthread_create starts runs
\* the caller's start routine directly, and pthread_exit ends the thread
\* without a hook call.
C1_PassThrough ==
  [][ (~alloc8_pthread_ready \/ ~has_thread_hooks) =>
        /\ \A t \in Threads : SelectSeq(hist'[t], IsHook) = HookCalls(t)
        /\ recState' = recState
        /\ \A t \in NewThreads :
             /\ how'[t] \in {"passthrough", "winthread"}
             /\ warg'[t] = NULL
             /\ how'[t] = "passthrough" => hist'[t] = <<"user_begin">> /\ pc'[t] = "user"
        /\ \A t \in Threads :
             (platform = "posix" /\ endedBy[t] = "none" /\ endedBy'[t] = "exit")
                => pc'[t] = "done" ]_vars

\* C1 witness: with both hooks supplied and the flag still false, a thread
\* was created by pass-through and has ended through pthread_exit.
C1_Witness ==
  \E t \in Threads :
    /\ platform = "posix" /\ has_init /\ has_cleanup /\ ~alloc8_pthread_ready
    /\ how[t] = "passthrough" /\ endedBy[t] = "exit" /\ pc[t] = "done"
    /\ HookCalls(t) = <<>>

\* C2 as stated: every thread created through the interposed pthread_create
\* while the hooks are ready and both hooks are supplied, once it has ended by
\* return or pthread_exit, has run init, user routine, cleanup exactly once
\* each and in this order.
C2_EveryCreatedThread ==
  \A t \in Threads :
    (has_init /\ has_cleanup /\ how[t] \in {"fallback", "trampoline"}
       /\ pc[t] = "done" /\ endedBy[t] \in {"return", "exit"})
      => Life(t) = FullLife

\* C2 amended: every thread started through the trampoline (hooks ready,
\* both hooks supplied, wrapper record allocated, creation succeeded) runs
\* xxthread_init before its user routine begins and xxthread_cleanup at most
\* once and only after the routine has finished; once it has ended by return
\* or pthread_exit it has made exactly one init and one cleanup call.
C2_Trampolined ==
  \A t \in Threads :
    (has_init /\ has_cleanup /\ how[t] = "trampoline") =>
      /\ IsPrefix(Life(t), FullLife)
      /\ pc[t] = "user" => Life(t) = <<"init", "user_begin">>
      /\ (pc[t] = "done" /\ endedBy[t] \in {"return", "exit"}) => Life(t) = FullLife

\* C2 witness: two trampolined threads have ended, one by return and one by
\* pthread_exit, with both hooks supplied.
C2_Witness ==
  \E t, u \in Threads :
    /\ has_init /\ has_cleanup
    /\ how[t] = "trampoline" /\ pc[t] = "done" /\ endedBy[t] = "return"
    /\ how[u] = "trampoline" /\ pc[u] = "done" /\ endedBy[u] = "exit"

WrapperHolders(r) == {t \in Threads : warg[t] = r}

\* C4: no wrapper record is read after its release, none is released twice,
\* and every live record is held by exactly one thread, which is either the
\* creating thread before the primitive returned or after it failed, or the
\* new thread's trampoline before its release.
C4_WrapperOwnership ==
  /\ ~recUAF
  /\ \A r \in Records :
       /\ recFrees[r] <= 1
       /\ recState[r] = "released" <=> recFrees[r] = 1
       /\ recState[r] = "live" =>
            /\ Cardinality(WrapperHolders(r)) = 1
            /\ \A t \in WrapperHolders(r) : pc[t] \in {"cr_call", "cr_free", "tr_read"}
       /\ recState[r] # "live" => WrapperHolders(r) = {}

\* C4 witness: one record was released by a trampoline and another by the
\* creating thread after a failed creation.
C4_Witness ==
  /\ \E t \in Threads : how[t] = "trampoline" /\ pc[t] # "tr_read"
  /\ Cardinality({r \in Records : recState[r] = "released"})
       > Cardinality({t \in Threads : how[t] = "trampoline"})

\* C5 as stated: a trampolined thread that has ended, by whatever means, has
\* run xxthread_cleanup.
C5_CleanupOnEveryEnd ==
  \A t \in Threads :
    (has_cleanup /\ how[t] = "trampoline" /\ pc[t] = "done")
      => \E i \in 1..Len(hist[t]) : hist[t][i] = "cleanup"

\* C6 as stated: whenever a second thread exists, the 'any thread created'
\* flag is 1.
C6_FlagSetWhenThreaded ==
  (\E t \in Threads : t # MainThread /\ pc[t] # "none") => TheFlag = 1

(***************************************************************************)
(* The early-load redirect (alloc8_redirect): IAT patching                 *)
(***************************************************************************)

\* the CRT libraries InstallPatches looks for, in its order
crtDlls == <<"ucrtbase.dll", "ucrtbased.dll", "api-ms-win-crt-heap-l1-1-0.dll", "msvcrt.dll">>

CrtNames == {crtDlls[i] : i \in 1..Len(crtDlls)}

\* the patched functions
Funcs == {"malloc", "free", "calloc", "realloc", "_msize"}

Blocks == 1..MaxBlocks

\* the sets of CRT libraries the loaded modules may import from
ImportSets == {I \in SUBSET CrtNames : Cardinality(I) \in 1..MaxImports}

\* PatchIATInAllModules saves the original only while *origFunc is null: the
\* first library in crtDlls order that some module imports from is captured
FirstImported(I) ==
  IF I = {} THEN "null"
  ELSE crtDlls[CHOOSE i \in 1..Len(crtDlls) :
                 /\ crtDlls[i] \in I
                 /\ \A j \in 1..(i - 1) : crtDlls[j] \notin I]

\* InstallPatches: for every library and function, capture the original and
\* overwrite the slot when the page protection could be changed (ok)
InstallPatches(ok) ==
  /\ orig' = [f \in Funcs |-> FirstImported(imported)]
  /\ iat' = [d \in CrtNames |-> IF d \in ok THEN "hook" ELSE iat[d]]

\* DllMain(DLL_PROCESS_ATTACH) of the redirect library
DllMain_ProcessAttach ==
  /\ rphase = "loading"
  /\ \E ntdll \in BOOLEAN :
       IF ~ntdll
       THEN /\ rphase' = "failed"
            /\ UNCHANGED <<orig, iat, g_initialized>>
       ELSE /\ \E ok \in SUBSET imported : InstallPatches(ok)
            /\ g_initialized' = TRUE
            /\ rphase' = "running"
  /\ UNCHANGED <<notRed, imported, p_xx, g_redirectEnabled, rblk, crtToBridge,
                 bridgeToCrt, enabledAtDetach, lateRoute>>

alloc8_redirect_init ==
  /\ rphase = "running"
  /\ p_xx' = [f \in Funcs |-> TRUE]
  /\ UNCHANGED <<notRed, rphase, imported, iat, orig, g_redirectEnabled, g_initialized,
                 rblk, crtToBridge, bridgeToCrt, enabledAtDetach, lateRoute>>

alloc8_redirect_enable ==
  /\ rphase = "running"
  /\ g_redirectEnabled' = TRUE
  /\ UNCHANGED <<notRed, rphase, imported, iat, orig, p_xx, g_initialized,
                 rblk, crtToBridge, bridgeToCrt, enabledAtDetach, lateRoute>>

alloc8_redirect_disable ==
  /\ rphase = "running"
  /\ g_redirectEnabled' = FALSE
  /\ UNCHANGED <<notRed, rphase, imported, iat, orig, p_xx, g_initialized,
                 rblk, crtToBridge, bridgeToCrt, enabledAtDetach, lateRoute>>

\* DllMain(DLL_PROCESS_DETACH) of the redirect library
DllMain_ProcessDetach ==
  /\ rphase = "running"
  /\ rphase' = "detached"
  /\ enabledAtDetach' = (g_redirectEnabled /\ \A f \in Funcs : p_xx[f])
  /\ g_redirectEnabled' = FALSE
  /\ UNCHANGED <<notRed, imported, iat, orig, p_xx, g_initialized,
                 rblk, crtToBridge, bridgeToCrt, lateRoute>>

\* where a hooked function sends the call: the Bridge, the captured CRT
\* library, or nowhere ("null")
hooked(f) == IF g_redirectEnabled /\ p_xx[f] THEN "bridge" ELSE orig[f]

\* where a call through an import slot of library d arrives
SlotTarget(d, f) == IF iat[d] = "hook" THEN hooked(f) ELSE d

\* bookkeeping of a call: pointer b (or NULL) handed to target tg
Passed(d, tg, b) ==
  /\ crtToBridge' = (crtToBridge \/ (b # NULL /\ tg = "bridge" /\ rblk[b] \in CrtNames))
  /\ bridgeToCrt' = (bridgeToCrt \/ (b # NULL /\ tg \in CrtNames /\ rblk[b] = "bridge"))
  /\ lateRoute' = IF rphase = "detached" /\ enabledAtDetach /\ iat[d] = "hook"
                  THEN lateRoute \cup {tg} ELSE lateRoute

CallsAllowed == rphase \in {"running", "detached"}

UnusedBlocks == {b \in Blocks : rblk[b] = "unused"}

LiveBlocks == {b \in Blocks : rblk[b] \in CrtNames \cup {"bridge"}}

\* an allocation by target tg: a fresh block owned by tg, or a null result
Allocated(tg) ==
  IF tg = "null" \/ UnusedBlocks = {}
  THEN rblk
  ELSE [rblk EXCEPT ![CHOOSE b \in UnusedBlocks : \A c \in UnusedBlocks : b <= c] = tg]

\* malloc(size) through an import slot of library d
Call_malloc(d) ==
  /\ CallsAllowed /\ d \in imported
  /\ LET tg == SlotTarget(d, "malloc") IN
       /\ Passed(d, tg, NULL)
       /\ rblk' = Allocated(tg)
  /\ UNCHANGED <<notRed, rphase, imported, iat, orig, p_xx, g_redirectEnabled,
                 g_initialized, enabledAtDetach>>

\* calloc(count, size) through an import slot of library d
Call_calloc(d) ==
  /\ CallsAllowed /\ d \in imported
  /\ LET tg == SlotTarget(d, "calloc") IN
       /\ Passed(d, tg, NULL)
       /\ rblk' = Allocated(tg)
  /\ UNCHANGED <<notRed, rphase, imported, iat, orig, p_xx, g_redirectEnabled,
                 g_initialized, enabledAtDetach>>

\* free(ptr) through an import slot of library d
Call_free(d, b) ==
  /\ CallsAllowed /\ d \in imported /\ b \in LiveBlocks
  /\ LET tg == SlotTarget(d, "free") IN
       /\ Passed(d, tg, b)
       /\ rblk' = IF tg = "null" THEN rblk ELSE [rblk EXCEPT ![b] = "freed"]
  /\ UNCHANGED <<notRed, rphase, imported, iat, orig, p_xx, g_redirectEnabled,
                 g_initialized, enabledAtDetach>>

\* realloc(ptr, size) through an import slot of library d: the target
\* releases the old block and hands out one of its own
Call_realloc(d, b) ==
  /\ CallsAllowed /\ d \in imported /\ b \in LiveBlocks
  /\ LET tg == SlotTarget(d, "realloc") IN
       /\ Passed(d, tg, b)
       /\ rblk' = IF tg = "null" THEN rblk ELSE [rblk EXCEPT ![b] = tg]
  /\ UNCHANGED <<notRed, rphase, imported, iat, orig, p_xx, g_redirectEnabled,
                 g_initialized, enabledAtDetach>>

\* _msize(ptr) through an import slot of library d
Call_msize(d, b) ==
  /\ CallsAllowed /\ d \in imported /\ b \in LiveBlocks
  /\ LET tg == SlotTarget(d, "_msize") IN Passed(d, tg, b)
  /\ UNCHANGED <<notRed, rphase, imported, iat, orig, p_xx, g_redirectEnabled,
                 g_initialized, enabledAtDetach, rblk>>

RedirectStart(imp) ==
  /\ rphase = "loading"
  /\ imported = imp
  /\ iat = [d \in CrtNames |-> "orig"]
  /\ orig = [f \in Funcs |-> "null"]
  /\ p_xx = [f \in Funcs |-> FALSE]
  /\ g_redirectEnabled = FALSE
  /\ g_initialized = FALSE
  /\ rblk = [b \in Blocks |-> "unused"]
  /\ crtToBridge = FALSE
  /\ bridgeToCrt = FALSE
  /\ enabledAtDetach = FALSE
  /\ lateRoute = {}

RedirectInit == \E imp \in ImportSets : RedirectStart(imp)

NextRedirect ==
  \/ DllMain_ProcessAttach
  \/ alloc8_redirect_init
  \/ alloc8_redirect_enable
  \/ alloc8_redirect_disable
  \/ DllMain_ProcessDetach
  \/ \E d \in CrtNames : Call_malloc(d)
  \/ \E d \in CrtNames : Call_calloc(d)
  \/ \E d \in CrtNames, b \in Blocks : Call_free(d, b)
  \/ \E d \in CrtNames, b \in Blocks : Call_realloc(d, b)
  \/ \E d \in CrtNames, b \in Blocks : Call_msize(d, b)

(***************************************************************************)
(* Properties of the early-load redirect                                   *)
(***************************************************************************)

\* C7: in the early-load redirect, under every interleaving of patch
\* installation, registration, enable, disable, process detach and hooked
\* calls, no pointer obtained from the captured CRT allocator is passed to a
\* registered Bridge function and no Bridge pointer is passed to an original
\* CRT function.
C7_NoForeignPointer == ~crtToBridge /\ ~bridgeToCrt

\* C9: once the allocator has registered and enabled interception, a call
\* made through a patched slot after process detach has begun is still
\* routed to the Bridge.
C9_RoutedToBridgeAfterDetach == \A tg \in lateRoute : tg = "bridge"

(***************************************************************************)
(* The Detours variant: detoured CRT functions and foreign pointers        *)
(***************************************************************************)

Ptrs == 1..MaxPtrs

Sizes == 0..MaxSize

NoCall == [fn |-> "none", ptr |-> NULL, sz |-> 0, probe |-> {}, asked |-> {},
           freed |-> {}, copied |-> {}, ret |-> NULL]

UnusedPtrs == {p \in Ptrs : dptr[p].cls = "unused"}

\* pointers the application holds
HeldPtrs == {p \in Ptrs : dptr[p].cls \in {"foreign", "owned"}}

\* the outcomes of xxmalloc_usable_size under the SEH guard: the usable size
\* of a block of the allocator; for any other address an access violation
\* (0) or whatever the bytes in front of it decode to
SafeGetAllocSize(p) ==
  IF p = NULL THEN {0}
  ELSE IF dptr[p].cls = "owned" THEN {dptr[p].usize}
  ELSE {0, MaxSize}

IsOurPointerAlways(v) == TRUE

IsOurPointer(v) == v > 0

\* the outcomes of xxmalloc(sz): NULL, or a fresh block of usable size >= sz
xxmalloc(sz) ==
  {[ptr |-> NULL, usize |-> 0]} \cup
  (IF UnusedPtrs = {} THEN {}
   ELSE {[ptr |-> CHOOSE p \in UnusedPtrs : \A q \in UnusedPtrs : p <= q, usize |-> u] :
           u \in {sz, MaxSize}})

\* the pointer table after a call that released the pointers in F, gave up
\* the pointers in D without releasing them, and allocated block a
Heap(F, D, a) ==
  [p \in Ptrs |->
     IF p \in F THEN [cls |-> "freed", usize |-> 0]
     ELSE IF p \in D
          THEN [cls |-> IF dptr[p].cls = "foreign" THEN "dropped" ELSE "leaked", usize |-> 0]
     ELSE IF p = a.ptr THEN [cls |-> "owned", usize |-> a.usize]
     ELSE dptr[p]]

NoBlock == [ptr |-> NULL, usize |-> 0]

\* an allocation made by the CRT while the detours are not attached
CrtAlloc ==
  /\ dphase = "loading" /\ UnusedPtrs # {}
  /\ dptr' = [dptr EXCEPT ![CHOOSE p \in UnusedPtrs : \A q \in UnusedPtrs : p <= q] =
                              [cls |-> "foreign", usize |-> 0]]
  /\ UNCHANGED <<notDet, dphase, attached, dlast>>

\* DllMain(DLL_PROCESS_ATTACH) -> InitializeAlloc8 -> InstallDetours
InitializeAlloc8 ==
  /\ dphase = "loading"
  /\ dphase' = "running"
  /\ \E anyAttached \in BOOLEAN : attached' = anyAttached
  /\ UNCHANGED <<notDet, dptr, dlast>>

\* DllMain(DLL_PROCESS_DETACH): FinalizeAlloc8 is not called and is empty
DetoursProcessDetach ==
  /\ dphase = "running"
  /\ dphase' = "detached"
  /\ UNCHANGED <<notDet, attached, dptr, dlast>>

Detoured == attached /\ dphase \in {"running", "detached"}

Detour_malloc(sz) ==
  /\ Detoured
  /\ \E a \in xxmalloc(sz) :
       /\ dptr' = Heap({}, {}, a)
       /\ dlast' = [NoCall EXCEPT !.fn = "malloc", !.sz = sz, !.asked = {sz}, !.ret = a.ptr]
  /\ UNCHANGED <<notDet, dphase, attached>>

Detour_free(p) ==
  /\ Detoured /\ p \in HeldPtrs \cup {NULL}
  /\ IF p = NULL
     THEN /\ dlast' = [NoCall EXCEPT !.fn = "free"]
          /\ dptr' = dptr
     ELSE \E v \in SafeGetAllocSize(p) :
            IF IsOurPointer(v)
            THEN /\ dptr' = Heap({p}, {}, NoBlock)
                 /\ dlast' = [NoCall EXCEPT !.fn = "free", !.ptr = p, !.probe = {v},
                                            !.freed = {p}]
            ELSE /\ dptr' = Heap({}, {p}, NoBlock)
                 /\ dlast' = [NoCall EXCEPT !.fn = "free", !.ptr = p, !.probe = {v}]
  /\ UNCHANGED <<notDet, dphase, attached>>

Min(a, b) == IF a < b THEN a ELSE b

Detour_realloc(p, sz) ==
  /\ Detoured /\ p \in HeldPtrs \cup {NULL}
  /\ LET call == [NoCall EXCEPT !.fn = "realloc", !.ptr = p, !.sz = sz] IN
     IF p = NULL
     THEN \E a \in xxmalloc(sz) :
            /\ dptr' = Heap({}, {}, a)
            /\ dlast' = [call EXCEPT !.asked = {sz}, !.ret = a.ptr]
     ELSE IF sz = 0
     THEN \E v \in SafeGetAllocSize(p) :
            LET F == IF IsOurPointer(v) THEN {p} ELSE {}
            IN  \E a \in xxmalloc(1) :
                  /\ dptr' = Heap(F, {p} \ F, a)
                  /\ dlast' = [call EXCEPT !.probe = {v}, !.freed = F, !.asked = {1},
                                           !.ret = a.ptr]
     ELSE \E originalSize \in SafeGetAllocSize(p) :
            IF originalSize = 0
            THEN \E buf \in xxmalloc(sz) :
                   /\ dptr' = Heap({}, IF buf.ptr # NULL THEN {p} ELSE {}, buf)
                   /\ dlast' = [call EXCEPT !.probe = {0}, !.asked = {sz},
                                   !.copied = IF buf.ptr # NULL THEN {sz} ELSE {},
                                   !.ret = buf.ptr]
            ELSE IF (originalSize \div 2 < sz) /\ (sz <= originalSize)
            THEN /\ dptr' = dptr
                 /\ dlast' = [call EXCEPT !.probe = {originalSize}, !.ret = p]
            ELSE \E buf \in xxmalloc(sz) :
                   /\ dptr' = Heap(IF buf.ptr # NULL THEN {p} ELSE {}, {}, buf)
                   /\ dlast' = [call EXCEPT !.probe = {originalSize}, !.asked = {sz},
                                   !.copied = IF buf.ptr # NULL
                                              THEN {Min(originalSize, sz)} ELSE {},
                                   !.freed = IF buf.ptr # NULL THEN {p} ELSE {},
                                   !.ret = buf.ptr]
  /\ UNCHANGED <<notDet, dphase, attached>>

Detour_msize(p) ==
  /\ Detoured /\ p \in HeldPtrs \cup {NULL}
  /\ \E v \in SafeGetAllocSize(p) :
       dlast' = [NoCall EXCEPT !.fn = "msize", !.ptr = p, !.probe = {v}, !.ret = v]
  /\ UNCHANGED <<notDet, dphase, attached, dptr>>

DetoursInit ==
  /\ dphase = "loading"
  /\ attached = FALSE
  /\ dptr = [p \in Ptrs |-> [cls |-> "unused", usize |-> 0]]
  /\ dlast = NoCall

NextDetours ==
  \/ CrtAlloc
  \/ InitializeAlloc8
  \/ DetoursProcessDetach
  \/ \E sz \in Sizes : Detour_malloc(sz)
  \/ \E p \in Ptrs \cup {NULL} : Detour_free(p)
  \/ \E p \in Ptrs \cup {NULL}, sz \in Sizes : Detour_realloc(p, sz)
  \/ \E p \in Ptrs \cup {NULL} : Detour_msize(p)

(***************************************************************************)
(* Properties of the Detours variant                                       *)
(***************************************************************************)

\* C8: for a non-null pointer whose size probe yields 0, Detour_free
\* releases nothing; Detour_realloc with a non-zero size asks the allocator
\* for a block of that size, copies that many bytes into the block when it
\* got one, returns it, and does not release the pointer; Detour_msize
\* returns 0.
C8_ForeignPointer ==
  (dlast.ptr # NULL /\ dlast.probe = {0}) =>
     /\ dlast.fn = "free" => (dlast.freed = {} /\ dlast.asked = {})
     /\ (dlast.fn = "realloc" /\ dlast.sz # 0) =>
          /\ dlast.freed = {}
          /\ dlast.asked = {dlast.sz}
          /\ dlast.ret # dlast.ptr
          /\ dlast.ret # NULL => (dlast.copied = {dlast.sz} /\ dptr[dlast.ret].cls = "owned")
          /\ dptr[dlast.ptr].cls # "freed"
     /\ dlast.fn = "msize" => dlast.ret = 0

C8_Witness ==
  /\ dlast.fn = "realloc" /\ dlast.ptr # NULL /\ dlast.sz # 0 /\ dlast.probe = {0}
  /\ dlast.ret # NULL /\ dptr[dlast.ptr].cls = "dropped"
  /\ \E q \in Ptrs : q # dlast.ptr /\ dptr[q].cls = "dropped"

(***************************************************************************)
(* Fork safety: the handlers registered with pthread_atfork                *)
(***************************************************************************)

Procs == 0..MaxProcs

FirstProc == CHOOSE p \in Procs : \A q \in Procs : p <= q

\* xxmalloc_lock blocks until the allocator lock is free
xxmalloc_lock(l) == l = "free"

\* xxmalloc_unlock leaves the allocator lock free
xxmalloc_unlock(l) == "free"

\* the number of unlock calls that turn lock state l into m
UnlockCalls(l, m) == IF m = l /\ l # "free" THEN 0 ELSE 1

\* another thread of process p takes the allocator lock for an operation
OtherLock(p) ==
  /\ fphase[p] # "none"
  /\ xxmalloc_lock(flock[p])
  /\ flock' = [flock EXCEPT ![p] = "other"]
  /\ UNCHANGED <<notFork, fphase, fheld, funlocks, fbad>>

\* ... and releases it
OtherUnlock(p) ==
  /\ flock[p] = "other"
  /\ flock' = [flock EXCEPT ![p] = xxmalloc_unlock(flock[p])]
  /\ UNCHANGED <<notFork, fphase, fheld, funlocks, fbad>>

\* the pre-fork handler, run by fork() in the forking thread
fork_prepare(p) ==
  /\ fphase[p] = "run"
  /\ fheld[p] < MaxForks
  /\ xxmalloc_lock(flock[p])
  /\ flock' = [flock EXCEPT ![p] = "handler"]
  /\ fheld' = [fheld EXCEPT ![p] = @ + 1]
  /\ fphase' = [fphase EXCEPT ![p] = "prepared"]
  /\ UNCHANGED <<notFork, funlocks, fbad>>

FreeProcs == {c \in Procs : fphase[c] = "none"}

\* fork() itself: the child is a copy of the parent, or the fork fails
Fork(p) ==
  /\ fphase[p] = "prepared"
  /\ \/ /\ FreeProcs # {}
        /\ LET c == CHOOSE c \in FreeProcs : \A d \in FreeProcs : c <= d IN
             /\ fphase' = [fphase EXCEPT ![p] = "parent", ![c] = "child"]
             /\ flock' = [flock EXCEPT ![c] = flock[p]]
             /\ fheld' = [fheld EXCEPT ![c] = 1]
             /\ funlocks' = [funlocks EXCEPT ![c] = 0]
     \/ /\ fphase' = [fphase EXCEPT ![p] = "parent"]
        /\ UNCHANGED <<flock, fheld, funlocks>>
  /\ UNCHANGED <<notFork, fbad>>

\* the effect of a post-fork handler on process p's allocator lock
AfterHandler(p, m) ==
  /\ fbad' = [fbad EXCEPT ![p] = @ \/ (UnlockCalls(flock[p], m) > 0 /\ flock[p] # "handler")]
  /\ funlocks' = [funlocks EXCEPT ![p] = @ + UnlockCalls(flock[p], m)]
  /\ flock' = [flock EXCEPT ![p] = m]
  /\ fphase' = [fphase EXCEPT ![p] = "run"]
  /\ UNCHANGED <<notFork, fheld>>

ParentHandler(l) == xxmalloc_unlock(l)

fork_parent(p) ==
  /\ fphase[p] = "parent"
  /\ AfterHandler(p, ParentHandler(flock[p]))

ChildHandlerNothing(l) == l

ChildHandler(l) == xxmalloc_unlock(l)

fork_child(c) ==
  /\ fphase[c] = "child"
  /\ AfterHandler(c, ChildHandler(flock[c]))

\* register_fork_handlers has run: the handlers are registered in the
\* first process, and every child inherits the registration
ForkInit ==
  /\ fphase = [p \in Procs |-> IF p = FirstProc THEN "run" ELSE "none"]
  /\ flock = [p \in Procs |-> "free"]
  /\ fheld = [p \in Procs |-> 0]
  /\ funlocks = [p \in Procs |-> 0]
  /\ fbad = [p \in Procs |-> FALSE]

NextFork ==
  \/ \E p \in Procs : OtherLock(p)
  \/ \E p \in Procs : OtherUnlock(p)
  \/ \E p \in Procs : fork_prepare(p)
  \/ \E p \in Procs : Fork(p)
  \/ \E p \in Procs : fork_parent(p)
  \/ \E p \in Procs : fork_child(p)

(***************************************************************************)
(* Properties of the fork handlers                                         *)
(***************************************************************************)

\* C10: around every fork the handlers lock the allocator once before the
\* fork and unlock it once in the parent and once in the child afterwards:
\* between the pre-fork handler and its post-fork handler a process holds
\* exactly one handler lock more than it has released, outside a fork it has
\* released as many handler locks as it took or inherited and holds none,
\* and no handler unlocks a lock that the pre-fork handler did not take.
C10_ForkLockBalance ==
  \A p \in Procs :
    /\ ~fbad[p]
    /\ fphase[p] = "run" => (flock[p] # "handler" /\ funlocks[p] = fheld[p])
    /\ fphase[p] \in {"prepared", "parent", "child"} =>
         (flock[p] = "handler" /\ fheld[p] = funlocks[p] + 1)
    /\ fphase[p] = "none" => (fheld[p] = 0 /\ funlocks[p] = 0)

C10_Witness ==
  \E p, c \in Procs :
    /\ p # c /\ fphase[p] = "run" /\ fphase[c] = "run"
    /\ funlocks[p] = MaxForks /\ fheld[p] = MaxForks
    /\ funlocks[c] >= 1 /\ funlocks[c] = fheld[c]

(***************************************************************************)
(* The allocator singleton: HeapRedirect::getHeap                          *)
(***************************************************************************)

Callers == 1..MaxCallers

\* a function-local static is initialized under a guard: a thread that finds
\* the initialization running waits for it
GuardNeverBlocks(g) == FALSE

GuardBlocks(g) == g = "running"

\* no destructor is registered for the instance: it is built by placement
\* new into a static char buffer and only a pointer to it is a static object
RegistersDestructor == FALSE

\* HeapRedirect::getHeap / ThreadRedirect::getAllocator, entry: the guarded
\* initialization of the static pointer heap
getHeap(t, via) ==
  /\ spc[t] = "idle" /\ scalls[t] < MaxCalls
  /\ ~GuardBlocks(sguard)
  /\ IF sguard = "uninit"
     THEN /\ sguard' = "running"
          /\ spc' = [spc EXCEPT ![t] = "ctor"]
          /\ sret' = sret
     ELSE /\ spc' = [spc EXCEPT ![t] = "ret"]
          /\ sret' = [sret EXCEPT ![t] = heap]
          /\ sguard' = sguard
  /\ svia' = [svia EXCEPT ![t] = via]
  /\ UNCHANGED <<notSing, heap, sctor, scalls, sgot, sexit, sdestroyed>>

\* new (buffer) AllocatorType: the constructor runs and heap is set
getHeap_construct(t) ==
  /\ spc[t] = "ctor"
  /\ sctor' = sctor + 1
  /\ heap' = "buffer"
  /\ sguard' = "done"
  /\ spc' = [spc EXCEPT ![t] = "ret"]
  /\ sret' = [sret EXCEPT ![t] = "buffer"]
  /\ UNCHANGED <<notSing, svia, scalls, sgot, sexit, sdestroyed>>

\* return heap
getHeap_return(t) ==
  /\ spc[t] = "ret"
  /\ sgot' = [sgot EXCEPT ![t] = @ \cup {sret[t]}]
  /\ scalls' = [scalls EXCEPT ![t] = @ + 1]
  /\ spc' = [spc EXCEPT ![t] = "idle"]
  /\ UNCHANGED <<notSing, heap, sguard, sctor, svia, sret, sexit, sdestroyed>>

\* process exit runs the destructors registered for static objects
ProcessExit ==
  /\ ~sexit
  /\ sexit' = TRUE
  /\ sdestroyed' = (RegistersDestructor /\ sguard = "done")
  /\ UNCHANGED <<notSing, heap, sguard, sctor, spc, svia, sret, scalls, sgot>>

SingletonInit ==
  /\ heap = "null"
  /\ sguard = "uninit"
  /\ sctor = 0
  /\ spc = [t \in Callers |-> "idle"]
  /\ svia = [t \in Callers |-> "none"]
  /\ sret = [t \in Callers |-> "null"]
  /\ scalls = [t \in Callers |-> 0]
  /\ sgot = [t \in Callers |-> {}]
  /\ sexit = FALSE
  /\ sdestroyed = FALSE

NextSingleton ==
  \/ \E t \in Callers, via \in {"getHeap", "getAllocator"} : getHeap(t, via)
  \/ \E t \in Callers : getHeap_construct(t)
  \/ \E t \in Callers : getHeap_return(t)
  \/ ProcessExit

(***************************************************************************)
(* Properties of the singleton                                             *)
(***************************************************************************)

\* C11: under every interleaving of concurrent accessor calls the allocator
\* is constructed at most once, every call of getHeap or getAllocator
\* returns the address of the one instance, returned only once the
\* constructor has finished, and the instance is never destroyed.
C11_Singleton ==
  /\ sctor <= 1
  /\ \A t \in Callers : sgot[t] \subseteq {"buffer"}
  /\ \A t \in Callers : spc[t] = "ret" => (sret[t] = "buffer" /\ sctor = 1 /\ sguard = "done")
  /\ ~sdestroyed

C11_Witness ==
  /\ sexit /\ sctor = 1
  /\ \E t, u \in Callers :
       /\ t # u /\ sgot[t] = {"buffer"} /\ sgot[u] = {"buffer"}
       /\ svia[t] = "getHeap" /\ svia[u] = "getAllocator"
       /\ scalls[t] = MaxCalls

(***************************************************************************)
(* The uniform-semantics wrappers over the Bridge: realloc, calloc, free   *)
(***************************************************************************)

Slots == 1..MaxSlots

Usable == 0..MaxUsable

Byte == {0, 1}

\* SIZE_MAX of a size_t that is SizeBits wide
SizeMax == 2^SizeBits - 1

SizeT == 0..SizeMax

\* size_t arithmetic wraps
Wrap(x) == x % (2^SizeBits)

\* a block of the allocator: "free", "dirty" (released while it held a
\* non-zero byte) or "live" with its usable size and contents
NoBlk == [st |-> "free", usize |-> 0, data |-> <<>>]

FreeSlots(h) == {q \in Slots : h[q].st # "live"}

LiveSlots(h) == {q \in Slots : h[q].st = "live"}

\* one call that a wrapper makes: the allocator's malloc (arg: size, res:
\* pointer, note: whether the block handed out was dirty), the allocator's
\* free (arg: pointer), memcpy and memset (arg: byte count, res: bytes that
\* fell outside the usable size of a block involved)
Op(op, arg, res, note) == [op |-> op, arg |-> arg, res |-> res, note |-> note]

\* the values of EINVAL and ENOMEM in <errno.h>
EINVAL == 22

ENOMEM == 12

\* the stores a wrapper makes outside the heap: "*memptr = ..." and
\* "errno = ENOMEM"
StoreMemptr(v) == Op("*memptr", v, 0, "")

StoreErrno(v) == Op("errno", v, 0, "")

\* the result of a wrapper call: returned pointer or error code, heap, the
\* calls and stores it made
Out(ret, h, ops) == [ret |-> ret, h |-> h, ops |-> ops]

\* AllocatorType::malloc(sz): null, or a block that is not live, with usable
\* size >= sz; a dirty block comes back with its old non-zero contents
Bridge_malloc(h, sz) ==
  {[ptr |-> NULL, h |-> h, note |-> "none"]} \cup
  (IF FreeSlots(h) = {} \/ sz > MaxUsable THEN {}
   ELSE LET q == CHOOSE q \in FreeSlots(h) : \A r \in FreeSlots(h) : q <= r IN
        {[ptr |-> q,
          h |-> [h EXCEPT ![q] = [st |-> "live", usize |-> u,
                                  data |-> [i \in 1..u |-> junk]]],
          note |-> h[q].st] :
           u \in {sz, MaxUsable},
           junk \in IF h[q].st = "dirty" THEN {1} ELSE Byte})

\* AllocatorType::free(p); what the allocator does with null is its own affair
Bridge_free(h, p) ==
  IF p = NULL THEN h
  ELSE [h EXCEPT ![p] =
          [st |-> IF \E i \in 1..h[p].usize : h[p].data[i] # 0 THEN "dirty" ELSE "free",
           usize |-> 0, data |-> <<>>]]

\* HeapRedirect::getSize(p)
Bridge_getSize(h, p) == IF p = NULL THEN 0 ELSE h[p].usize

\* HeapRedirect::malloc(sz) with the record of the call
MallocOp(m, sz) == Op("malloc", sz, m.ptr, m.note)

FreeReachesAlways(p) == TRUE

\* HeapRedirect::free hands only non-null pointers to the allocator
FreeReaches(p) == p # NULL

\* HeapRedirect::free, which ALLOC8_REDIRECT exports as xxfree
HeapRedirect_free(h, p) ==
  IF FreeReaches(p) THEN Out(NULL, Bridge_free(h, p), <<Op("free", p, 0, "")>>)
  ELSE Out(NULL, h, <<>>)

\* bytes of a copy or fill of n bytes that fall outside a block of usable size u
Overrun(n, u) == IF n > u THEN n - u ELSE 0

\* memcpy(dst, src, n) on the heap: bytes read beyond src's usable size are
\* whatever lies there (taken as 1)
Memcpy(h, dst, src, n) ==
  [h EXCEPT ![dst].data =
     [i \in 1..h[dst].usize |->
        IF i <= n THEN (IF i <= h[src].usize THEN h[src].data[i] ELSE 1)
        ELSE h[dst].data[i]]]

MemcpyOp(h, dst, src, n) ==
  Op("memcpy", n, Overrun(n, Min(h[src].usize, h[dst].usize)), "")

\* memset(p + from, 0, n)
Memset0(h, p, from, n) ==
  [h EXCEPT ![p].data =
     [i \in 1..h[p].usize |-> IF from < i /\ i <= from + n THEN 0 ELSE h[p].data[i]]]

MemsetOp(h, p, from, n) == Op("memset", n, Overrun(from + n, h[p].usize), "")

\* "Don't reallocate if shrinking by less than half"
ShrinkKeeps(oldSize, sz) == (oldSize \div 2 < sz) /\ (sz <= oldSize)

FailureResultOriginal(p) == p

\* "return nullptr; // Keep original on failure"
FailureResult(p) == NULL

CopySizeRequested(oldSize, sz) == sz

\* "size_t copySize = (oldSize < sz) ? oldSize : sz;"
CopySize(oldSize, sz) == Min(oldSize, sz)

\* the tail shared by the realloc implementations: allocate, copy
\* min(oldSize, sz), release the old block; freeOnFail is reallocf's rule
MoveBlock(h, p, sz, oldSize, freeOnFail) ==
  {IF m.ptr = NULL
   THEN IF freeOnFail
        THEN Out(NULL, HeapRedirect_free(h, p).h, <<MallocOp(m, sz)>> \o HeapRedirect_free(h, p).ops)
        ELSE Out(FailureResult(p), h, <<MallocOp(m, sz)>>)
   ELSE LET copySize == CopySize(oldSize, sz)
            c == Memcpy(m.h, m.ptr, p, copySize)
        IN  Out(m.ptr, HeapRedirect_free(c, p).h,
                <<MallocOp(m, sz), MemcpyOp(m.h, m.ptr, p, copySize)>> \o HeapRedirect_free(c, p).ops)
   : m \in Bridge_malloc(h, sz)}

\* realloc(NULL, sz) == malloc(sz)
ReallocNull(h, sz) ==
  {Out(m.ptr, m.h, <<MallocOp(m, sz)>>) : m \in Bridge_malloc(h, sz)}

\* realloc(p, 0) that releases p and returns xxmalloc(1)
ReallocZeroMin(h, p) ==
  {Out(m.ptr, m.h, HeapRedirect_free(h, p).ops \o <<MallocOp(m, 1)>>) :
     m \in Bridge_malloc(HeapRedirect_free(h, p).h, 1)}

\* realloc(p, 0) that releases p and returns null
ReallocZeroNull(h, p) == {Out(NULL, HeapRedirect_free(h, p).h, HeapRedirect_free(h, p).ops)}

\* alloc8_common_realloc; apple: built with __APPLE__ defined
alloc8_common_realloc(h, p, sz, apple) ==
  IF p = NULL THEN ReallocNull(h, sz)
  ELSE IF sz = 0 THEN (IF apple THEN ReallocZeroMin(h, p) ELSE ReallocZeroNull(h, p))
  ELSE LET oldSize == Bridge_getSize(h, p) IN
       IF ShrinkKeeps(oldSize, sz) THEN {Out(p, h, <<>>)}
       ELSE MoveBlock(h, p, sz, oldSize, FALSE)

\* HeapRedirect::realloc, the default used when the allocator has no realloc:
\* "always reallocate"
HeapRedirect_realloc(h, p, sz) ==
  IF p = NULL THEN ReallocNull(h, sz)
  ELSE IF sz = 0 THEN ReallocZeroNull(h, p)
  ELSE MoveBlock(h, p, sz, Bridge_getSize(h, p), FALSE)

FreeOnFailureAlways(entry) == TRUE

\* only reallocf releases the original when the allocation fails
FreeOnFailure(entry) == entry = "replace_reallocf"

\* replace_realloc and replace_reallocf (macOS)
replace_realloc(h, p, sz, entry) ==
  IF p = NULL THEN ReallocNull(h, sz)
  ELSE IF sz = 0 THEN ReallocZeroMin(h, p)
  ELSE LET oldSize == Bridge_getSize(h, p) IN
       IF ShrinkKeeps(oldSize, sz) THEN {Out(p, h, <<>>)}
       ELSE MoveBlock(h, p, sz, oldSize, FreeOnFailure(entry))

\* Detour_realloc on a pointer of the replacement allocator: ownership is
\* decided by probing the usable size
Detour_realloc_block(h, p, sz) ==
  IF p = NULL THEN ReallocNull(h, sz)
  ELSE IF sz = 0
  THEN IF IsOurPointer(Bridge_getSize(h, p)) THEN ReallocZeroMin(h, p)
       ELSE {Out(m.ptr, m.h, <<MallocOp(m, 1)>>) : m \in Bridge_malloc(h, 1)}
  ELSE LET originalSize == Bridge_getSize(h, p) IN
       IF originalSize = 0
       THEN {IF m.ptr = NULL THEN Out(NULL, h, <<MallocOp(m, sz)>>)
             ELSE Out(m.ptr, Memcpy(m.h, m.ptr, p, sz),
                      <<MallocOp(m, sz), MemcpyOp(m.h, m.ptr, p, sz)>>)
             : m \in Bridge_malloc(h, sz)}
       ELSE IF ShrinkKeeps(originalSize, sz) THEN {Out(p, h, <<>>)}
       ELSE MoveBlock(h, p, sz, originalSize, FALSE)

ReallocEntries ==
  {"alloc8_common_realloc", "alloc8_common_realloc __APPLE__", "HeapRedirect::realloc",
   "replace_realloc", "replace_reallocf", "Detour_realloc"}

ReallocOf(entry, h, p, sz) ==
  CASE entry = "alloc8_common_realloc" -> alloc8_common_realloc(h, p, sz, FALSE)
    [] entry = "alloc8_common_realloc __APPLE__" -> alloc8_common_realloc(h, p, sz, TRUE)
    [] entry = "HeapRedirect::realloc" -> HeapRedirect_realloc(h, p, sz)
    [] entry \in {"replace_realloc", "replace_reallocf"} -> replace_realloc(h, p, sz, entry)
    [] entry = "Detour_realloc" -> Detour_realloc_block(h, p, sz)

CallocOverflowNever(count, size, total) == FALSE

\* "size != 0 && total / size != count"
CallocOverflow(count, size, total) == size # 0 /\ total \div size # count

ZeroFillNothing(h, p, n) == h

\* "memset(ptr, 0, total)"
ZeroFill(h, p, n) == Memset0(h, p, 0, n)

\* alloc8_common_calloc
alloc8_common_calloc(h, count, size) ==
  LET total == Wrap(count * size) IN
  IF CallocOverflow(count, size, total) THEN {Out(NULL, h, <<>>)}
  ELSE {IF m.ptr = NULL THEN Out(NULL, h, <<MallocOp(m, total)>>)
        ELSE Out(m.ptr, ZeroFill(m.h, m.ptr, total),
                 <<MallocOp(m, total), MemsetOp(m.h, m.ptr, 0, total)>>)
        : m \in Bridge_malloc(h, total)}

\* HeapRedirect::calloc, reached as xxcalloc from calloc, replace_calloc,
\* the zone calloc and Detour_calloc
HeapRedirect_calloc(h, count, size) ==
  LET total == Wrap(count * size) IN
  IF CallocOverflow(count, size, total) THEN {Out(NULL, h, <<>>)}
  ELSE {IF m.ptr = NULL THEN Out(NULL, h, <<MallocOp(m, total)>>)
        ELSE Out(m.ptr, ZeroFill(m.h, m.ptr, total),
                 <<MallocOp(m, total), MemsetOp(m.h, m.ptr, 0, total)>>)
        : m \in Bridge_malloc(h, total)}

CallocEntries == {"alloc8_common_calloc", "HeapRedirect::calloc"}

CallocOf(entry, h, count, size) ==
  IF entry = "alloc8_common_calloc" THEN alloc8_common_calloc(h, count, size)
  ELSE HeapRedirect_calloc(h, count, size)

\* "size != 0 && nmemb > SIZE_MAX / size"
ReallocarrayOverflow(nmemb, size) == size # 0 /\ nmemb > SizeMax \div size

\* "errno = ENOMEM; return nullptr;" on overflow
alloc8_common_reallocarray(h, p, nmemb, size) ==
  IF ReallocarrayOverflow(nmemb, size) THEN {Out(NULL, h, <<StoreErrno(ENOMEM)>>)}
  ELSE alloc8_common_realloc(h, p, Wrap(nmemb * size), FALSE)

\* reallocarray of gnu_wrapper.cpp
reallocarray(h, p, nmemb, size) ==
  IF ReallocarrayOverflow(nmemb, size) THEN {Out(NULL, h, <<StoreErrno(ENOMEM)>>)}
  ELSE HeapRedirect_realloc(h, p, Wrap(nmemb * size))

\* Detour_recalloc: "size_t requestedSize = num * size;"
Detour_recalloc(h, p, num, size) ==
  LET requestedSize == Wrap(num * size) IN
  {IF o.ret = NULL THEN o
   ELSE LET actualSize == Bridge_getSize(o.h, o.ret) IN
        IF actualSize > requestedSize
        THEN Out(o.ret, Memset0(o.h, o.ret, requestedSize, actualSize - requestedSize),
                 o.ops \o <<MemsetOp(o.h, o.ret, requestedSize, actualSize - requestedSize)>>)
        ELSE o
   : o \in Detour_realloc_block(h, p, requestedSize)}

ArrayEntries == {"alloc8_common_reallocarray", "reallocarray", "_recalloc"}

ArrayOf(entry, h, p, n, s) ==
  CASE entry = "alloc8_common_reallocarray" -> alloc8_common_reallocarray(h, p, n, s)
    [] entry = "reallocarray" -> reallocarray(h, p, n, s)
    [] entry = "_recalloc" -> Detour_recalloc(h, p, n, s)

\* the release entry points that test for null themselves: free, cfree and
\* __libc_free of gnu_wrapper.cpp, operator delete
ChecksNull == {"free", "cfree", "__libc_free", "operator delete"}

\* the release entry points that hand their argument straight to xxfree:
\* replace_free, the zone free
PassesOn == {"replace_free", "replace_malloc_zone_free"}

FreeEntries == ChecksNull \cup PassesOn \cup {"Detour_free"}

FreeOf(entry, h, p) ==
  CASE entry \in ChecksNull -> IF p # NULL THEN HeapRedirect_free(h, p) ELSE Out(NULL, h, <<>>)
    [] entry \in PassesOn -> HeapRedirect_free(h, p)
    [] entry = "Detour_free" ->
         IF p = NULL THEN Out(NULL, h, <<>>)
         ELSE IF IsOurPointer(Bridge_getSize(h, p)) THEN HeapRedirect_free(h, p)
         ELSE Out(NULL, h, <<>>)

\* replace_malloc_zone_batch_free: xxfree on every element in turn
RECURSIVE replace_malloc_zone_batch_free(_, _)
replace_malloc_zone_batch_free(h, ps) ==
  IF ps = <<>> THEN Out(NULL, h, <<>>)
  ELSE LET f == HeapRedirect_free(h, Head(ps))
           r == replace_malloc_zone_batch_free(f.h, Tail(ps))
       IN  Out(NULL, r.h, f.ops \o r.ops)

\* the arrays handed to the batch free: null and live pointers, none twice
BatchSeqs ==
  {<<a>> : a \in Slots \cup {NULL}} \cup
  {<<a, b>> : <<a, b>> \in {x \in (Slots \cup {NULL}) \X (Slots \cup {NULL}) :
                               x[2] = NULL \/ x[2] # x[1]}}

BatchArgs(h) == {ps \in BatchSeqs : \A i \in 1..Len(ps) : ps[i] \in LiveSlots(h) \cup {NULL}}

\* the last wrapper call: its entry point and arguments, the block p named
\* before the call, the result and the calls made
NoWrapperCall ==
  [fn |-> "none", entry |-> "", p |-> NULL, batch |-> <<>>, n |-> 0, s |-> 0,
   pre |-> NoBlk, ret |-> NULL, ops |-> <<>>]

Before(h, p) == IF p = NULL THEN NoBlk ELSE h[p]

\* no call is waiting for the application to take its result
Idle == wlast.fn = "none"

Done(call, o) ==
  /\ wheap' = o.h
  /\ wlast' = [call EXCEPT !.ret = o.ret, !.ops = o.ops]
  /\ UNCHANGED notWrap

\* the application takes the result of the call and goes on
Resume ==
  /\ ~Idle
  /\ wlast' = NoWrapperCall
  /\ UNCHANGED <<notWrap, wheap>>

Malloc(sz) ==
  /\ Idle
  /\ \E m \in Bridge_malloc(wheap, sz) :
       Done([NoWrapperCall EXCEPT !.fn = "malloc", !.entry = "malloc", !.s = sz],
            Out(m.ptr, m.h, <<MallocOp(m, sz)>>))

\* the application stores a byte in a block it holds
AppWrite(p, i, b) ==
  /\ Idle /\ p \in LiveSlots(wheap) /\ i \in 1..wheap[p].usize
  /\ wheap' = [wheap EXCEPT ![p].data[i] = b]
  /\ UNCHANGED <<notWrap, wlast>>

Free(entry, p) ==
  /\ Idle /\ p \in LiveSlots(wheap) \cup {NULL}
  /\ Done([NoWrapperCall EXCEPT !.fn = "free", !.entry = entry, !.p = p,
                                !.pre = Before(wheap, p)],
          FreeOf(entry, wheap, p))

BatchFree(ps) ==
  /\ Idle /\ ps \in BatchArgs(wheap)
  /\ Done([NoWrapperCall EXCEPT !.fn = "batch_free",
                                !.entry = "replace_malloc_zone_batch_free", !.batch = ps],
          replace_malloc_zone_batch_free(wheap, ps))

Realloc(entry, p, sz) ==
  /\ Idle /\ p \in LiveSlots(wheap) \cup {NULL}
  /\ \E o \in ReallocOf(entry, wheap, p, sz) :
       Done([NoWrapperCall EXCEPT !.fn = "realloc", !.entry = entry, !.p = p, !.s = sz,
                                  !.pre = Before(wheap, p)], o)

Calloc(entry, n, s) ==
  /\ Idle
  /\ \E o \in CallocOf(entry, wheap, n, s) :
       Done([NoWrapperCall EXCEPT !.fn = "calloc", !.entry = entry, !.n = n, !.s = s], o)

ReallocArray(entry, p, n, s) ==
  /\ Idle /\ p \in LiveSlots(wheap) \cup {NULL}
  /\ \E o \in ArrayOf(entry, wheap, p, n, s) :
       Done([NoWrapperCall EXCEPT !.fn = "array", !.entry = entry, !.p = p, !.n = n,
                                  !.s = s, !.pre = Before(wheap, p)], o)

(***************************************************************************)
(* Aligned allocation: memalign, posix_memalign, aligned_alloc, valloc,    *)
(* pvalloc; strdup                                                         *)
(***************************************************************************)

\* sizeof(void*) and ALLOC8_PAGE_SIZE, powers of two of the modelled width
PtrSize == 2^(SizeBits - 1)

PageSize == 2^(SizeBits - 1)

\* a & b on size_t
RECURSIVE BitAnd(_, _)
BitAnd(a, b) ==
  IF a = 0 \/ b = 0 THEN 0
  ELSE (a % 2) * (b % 2) + 2 * BitAnd(a \div 2, b \div 2)

\* getHeap()->memalign(alignment, sz), reached through xxmemalign: null, or
\* a block as malloc gives it
Bridge_memalign(h, alignment, sz) ==
  {[ptr |-> m.ptr, h |-> m.h, op |-> Op("memalign", <<alignment, sz>>, m.ptr, m.note)] :
     m \in Bridge_malloc(h, sz)}

\* memalign of gnu_wrapper.cpp and gnu_wrapper.h, __libc_memalign,
\* replace_memalign
memalign(h, alignment, size) ==
  {Out(m.ptr, m.h, <<m.op>>) : m \in Bridge_memalign(h, alignment, size)}

PosixEntries ==
  {"alloc8_common_posix_memalign", "posix_memalign", "gnu_wrapper.h posix_memalign",
   "replace_posix_memalign"}

InvalidAlignmentPow2Only(entry, alignment) ==
  BitAnd(alignment, Wrap(alignment + SizeMax)) # 0

\* the alignment test of posix_memalign: (alignment & (alignment - 1)) != 0
\* with alignment < sizeof(void*) in wrapper_common.cpp, with alignment == 0
\* or alignment % sizeof(void*) != 0 in the others
InvalidAlignment(entry, alignment) ==
  \/ IF entry = "alloc8_common_posix_memalign" THEN alignment < PtrSize
     ELSE alignment = 0 \/ alignment % PtrSize # 0
  \/ BitAnd(alignment, Wrap(alignment + SizeMax)) # 0

\* the failure test: "!ptr && size != 0" in wrapper_common.cpp and
\* replace_posix_memalign, "!ptr" in gnu_wrapper.cpp and gnu_wrapper.h
NoMemory(entry, ptr, size) ==
  IF entry \in {"alloc8_common_posix_memalign", "replace_posix_memalign"}
  THEN ptr = NULL /\ size # 0
  ELSE ptr = NULL

posix_memalign(h, entry, alignment, size) ==
  IF InvalidAlignment(entry, alignment)
  THEN {Out(EINVAL, h, <<StoreMemptr(NULL)>>)}
  ELSE {IF NoMemory(entry, m.ptr, size)
        THEN Out(ENOMEM, m.h, <<StoreMemptr(NULL), m.op>>)
        ELSE Out(0, m.h, <<StoreMemptr(NULL), m.op, StoreMemptr(m.ptr)>>)
        : m \in Bridge_memalign(h, alignment, size)}

\* a test of the alignment alone
AlignedAllocRejectsZero(alignment, size) == alignment = 0

\* "alignment == 0 || (size % alignment) != 0"
AlignedAllocRejects(alignment, size) == alignment = 0 \/ size % alignment # 0

\* alloc8_common_aligned_alloc, aligned_alloc of gnu_wrapper.cpp and
\* gnu_wrapper.h, replace_aligned_alloc
aligned_alloc(h, alignment, size) ==
  IF AlignedAllocRejects(alignment, size) THEN {Out(NULL, h, <<>>)}
  ELSE memalign(h, alignment, size)

\* valloc: xxmemalign(ALLOC8_PAGE_SIZE, sz)
valloc(h, sz) == memalign(h, PageSize, sz)

\* "size_t rounded = (sz + pagesize - 1) & ~(pagesize - 1);"
PageRound(sz) == BitAnd(Wrap(sz + PageSize - 1), SizeMax - (PageSize - 1))

pvalloc(h, sz) == memalign(h, PageSize, PageRound(sz))

AlignedEntries == {"memalign", "aligned_alloc", "valloc", "pvalloc"}

AlignedOf(entry, h, alignment, size) ==
  CASE entry = "memalign" -> memalign(h, alignment, size)
    [] entry = "aligned_alloc" -> aligned_alloc(h, alignment, size)
    [] entry = "valloc" -> valloc(h, size)
    [] entry = "pvalloc" -> pvalloc(h, size)

\* strdup: null for a null string, else xxmalloc(strlen(s) + 1) and a copy
\* of the string (bytes 1) with its terminator
strdup(h, isNull, length) ==
  IF isNull THEN {Out(NULL, h, <<>>)}
  ELSE LET len == length + 1 IN
       {IF m.ptr = NULL THEN Out(NULL, h, <<MallocOp(m, len)>>)
        ELSE Out(m.ptr,
                 [m.h EXCEPT ![m.ptr].data =
                    [i \in 1..m.h[m.ptr].usize |->
                       IF i < len THEN 1 ELSE IF i = len THEN 0 ELSE m.h[m.ptr].data[i]]],
                 <<MallocOp(m, len), Op("memcpy", len, Overrun(len, m.h[m.ptr].usize), "")>>)
        : m \in Bridge_malloc(h, len)}

\* posix_memalign(&x, alignment, size) where x holds old
PosixMemalign(entry, old, alignment, size) ==
  /\ Idle
  /\ \E o \in posix_memalign(wheap, entry, alignment, size) :
       Done([NoWrapperCall EXCEPT !.fn = "posix_memalign", !.entry = entry, !.p = old,
                                  !.n = alignment, !.s = size], o)

Aligned(entry, alignment, size) ==
  /\ Idle
  /\ \E o \in AlignedOf(entry, wheap, alignment, size) :
       Done([NoWrapperCall EXCEPT !.fn = "aligned", !.entry = entry,
                                  !.n = IF entry \in {"valloc", "pvalloc"} THEN PageSize
                                        ELSE alignment,
                                  !.s = size], o)

\* strdup(s); n records whether s was a string (1) or null (0)
Strdup(isNull, length) ==
  /\ Idle
  /\ \E o \in strdup(wheap, isNull, length) :
       Done([NoWrapperCall EXCEPT !.fn = "strdup", !.entry = "strdup",
                                  !.n = IF isNull THEN 0 ELSE 1, !.s = length], o)

(***************************************************************************)
(* ANSIWrapper: minimum alignment and size rounding over a SuperHeap       *)
(***************************************************************************)

\* the template parameter MinAlignment, a power of two of the modelled width
\* that is at least sizeof(void*)
MinAlignment == 2^(SizeBits - 1)

\* "if (sz < alignment) sz = alignment;"
AtLeastAlignment(sz) == IF sz < MinAlignment THEN MinAlignment ELSE sz

\* "sz = (sz + alignment - 1) & ~(alignment - 1);" in size_t
RoundUp(sz) == BitAnd(Wrap(sz + MinAlignment - 1), SizeMax - (MinAlignment - 1))

\* "if (sz > SIZE_MAX - alignment + 1) return nullptr;"
RoundingOverflows(sz) == sz > SizeMax - MinAlignment + 1

ANSIWrapper_malloc(h, sz) ==
  IF RoundingOverflows(AtLeastAlignment(sz)) THEN {Out(NULL, h, <<>>)}
  ELSE LET rounded == RoundUp(AtLeastAlignment(sz)) IN
       {Out(m.ptr, m.h, <<MallocOp(m, rounded)>>) : m \in Bridge_malloc(h, rounded)}

ANSIWrapper_free(h, p) ==
  IF p # NULL THEN Out(NULL, Bridge_free(h, p), <<Op("free", p, 0, "")>>)
  ELSE Out(NULL, h, <<>>)

ANSIWrapper_realloc(h, p, sz) ==
  IF p = NULL THEN ANSIWrapper_malloc(h, sz)
  ELSE IF sz = 0 THEN {ANSIWrapper_free(h, p)}
  ELSE LET rounded == RoundUp(AtLeastAlignment(sz))
           currentSize == Bridge_getSize(h, p)
       IN  IF rounded <= currentSize THEN {Out(p, h, <<>>)}
           ELSE {IF m.ptr = NULL THEN Out(NULL, h, <<MallocOp(m, rounded)>>)
                 ELSE LET c == Memcpy(m.h, m.ptr, p, currentSize) IN
                      Out(m.ptr, Bridge_free(c, p),
                          <<MallocOp(m, rounded), MemcpyOp(m.h, m.ptr, p, currentSize),
                            Op("free", p, 0, "")>>)
                 : m \in Bridge_malloc(h, rounded)}

ANSIMalloc(sz) ==
  /\ Idle
  /\ \E o \in ANSIWrapper_malloc(wheap, sz) :
       Done([NoWrapperCall EXCEPT !.fn = "ANSIWrapper::malloc",
                                  !.entry = "ANSIWrapper::malloc", !.s = sz], o)

ANSIRealloc(p, sz) ==
  /\ Idle /\ p \in LiveSlots(wheap) \cup {NULL}
  /\ \E o \in ANSIWrapper_realloc(wheap, p, sz) :
       Done([NoWrapperCall EXCEPT !.fn = "ANSIWrapper::realloc",
                                  !.entry = "ANSIWrapper::realloc", !.p = p, !.s = sz,
                                  !.pre = Before(wheap, p)], o)

WrappersInit ==
  /\ wheap = [q \in Slots |-> NoBlk]
  /\ wlast = NoWrapperCall

\* realloc and the release entry points
NextWrappers ==
  \/ \E sz \in Usable : Malloc(sz)
  \/ \E p \in Slots, i \in 1..MaxUsable, b \in Byte : AppWrite(p, i, b)
  \/ \E entry \in FreeEntries, p \in Slots \cup {NULL} : Free(entry, p)
  \/ \E ps \in BatchSeqs : BatchFree(ps)
  \/ \E entry \in ReallocEntries, p \in Slots \cup {NULL}, sz \in Usable : Realloc(entry, p, sz)
  \/ Resume

\* the count-times-size entry points
NextArith ==
  \/ \E sz \in Usable : Malloc(sz)
  \/ \E p \in Slots \cup {NULL} : Free("free", p)
  \/ \E entry \in CallocEntries, n \in SizeT, s \in SizeT : Calloc(entry, n, s)
  \/ \E entry \in ArrayEntries, p \in Slots \cup {NULL}, n \in SizeT, s \in SizeT :
       ReallocArray(entry, p, n, s)
  \/ \E entry \in PosixEntries, old \in Slots \cup {NULL}, alignment \in SizeT, size \in SizeT :
       PosixMemalign(entry, old, alignment, size)
  \/ \E entry \in AlignedEntries, alignment \in SizeT, size \in SizeT :
       Aligned(entry, alignment, size)
  \/ \E isNull \in BOOLEAN, length \in Usable : Strdup(isNull, length)
  \/ Resume

\* ANSIWrapper over the allocator
NextANSI ==
  \/ \E sz \in Usable : Malloc(sz)
  \/ \E p \in Slots \cup {NULL} : Free("free", p)
  \/ \E sz \in SizeT : ANSIMalloc(sz)
  \/ \E p \in Slots \cup {NULL}, sz \in SizeT : ANSIRealloc(p, sz)
  \/ Resume

\* the aligned allocation entry points
NextAligned ==
  \/ \E p \in Slots \cup {NULL} : Free("free", p)
  \/ \E entry \in PosixEntries, old \in Slots \cup {NULL}, alignment \in SizeT, size \in SizeT :
       PosixMemalign(entry, old, alignment, size)
  \/ \E entry \in AlignedEntries, alignment \in SizeT, size \in SizeT :
       Aligned(entry, alignment, size)
  \/ Resume

\* positions in the last call's record where it called f
CallsTo(f) == {i \in 1..Len(wlast.ops) : wlast.ops[i].op = f}

\* the last call was realloc on a live block with a non-zero size
ReallocOnBlock == wlast.fn = "realloc" /\ wlast.p # NULL /\ wlast.s > 0

\* the allocator could not supply the new block
AllocationFailed == \E i \in CallsTo("malloc") : wlast.ops[i].res = NULL

\* C12: realloc(p, s) on an owned p with old_usable/2 < s <= old_usable
\* returns p and calls neither allocate nor release, at every realloc entry
\* point, HeapRedirect::realloc included.
C12_ShrinkThreshold ==
  (ReallocOnBlock /\ 2 * wlast.s > wlast.pre.usize /\ wlast.s <= wlast.pre.usize) =>
     /\ wlast.ret = wlast.p
     /\ CallsTo("malloc") = {} /\ CallsTo("free") = {}
     /\ wheap[wlast.p] = wlast.pre

\* the realloc entry points that keep the original when the allocation fails
KeepOnFailure == ReallocEntries \ {"replace_reallocf"}

\* C13: when realloc(p, s), p non-null and s > 0, fails because the new
\* block cannot be allocated, release(p) is not called and nothing is
\* written: p is still live with its contents unchanged, in
\* alloc8_common_realloc, HeapRedirect::realloc, replace_realloc and
\* Detour_realloc alike.
C13_FailureKeepsBlock ==
  (ReallocOnBlock /\ wlast.entry \in KeepOnFailure /\ AllocationFailed) =>
     /\ CallsTo("free") = {} /\ CallsTo("memcpy") = {} /\ CallsTo("memset") = {}
     /\ wlast.pre.st = "live"
     /\ wheap[wlast.p] = wlast.pre

\* Detour_realloc has failed to grow a block that holds a non-zero byte
\* while no block was left to hand out
C13_Witness ==
  /\ ReallocOnBlock /\ AllocationFailed
  /\ wlast.entry = "Detour_realloc"
  /\ LiveSlots(wheap) = Slots
  /\ \E i \in 1..wlast.pre.usize : wlast.pre.data[i] # 0
  /\ wlast.s > wlast.pre.usize

\* the uniform-semantics reallocate wrapper
CommonRealloc == {"alloc8_common_realloc", "alloc8_common_realloc __APPLE__"}

\* C14 as stated: when alloc8_common_realloc is called with a non-null
\* pointer and a non-zero size and the new allocation fails, it returns the
\* original pointer (not null) and does not release it.
C14_ReturnsOriginal ==
  (ReallocOnBlock /\ wlast.entry \in CommonRealloc /\ AllocationFailed) =>
     (wlast.ret = wlast.p /\ CallsTo("free") = {})

\* C14 amended: when alloc8_common_realloc is called with a non-null pointer
\* and a non-zero size and the new allocation fails, it returns null and does
\* not release the original pointer, which stays live.
C14_FailureReturnsNull ==
  (ReallocOnBlock /\ wlast.entry \in CommonRealloc /\ AllocationFailed) =>
     (wlast.ret = NULL /\ CallsTo("free") = {} /\ wheap[wlast.p].st = "live")

C14_Witness ==
  /\ ReallocOnBlock /\ AllocationFailed
  /\ wlast.entry = "alloc8_common_realloc"
  /\ wlast.s > wlast.pre.usize
  /\ wlast.ret = NULL /\ wheap[wlast.p].st = "live"

ZeroFriendly == {"alloc8_common_realloc", "HeapRedirect::realloc"}

\* C16: for every non-null owned p, realloc(p, 0) releases p exactly once
\* and returns null on the zero-friendly platform, or a fresh minimum-size
\* allocation on the zero-hostile platform (null only if that allocation
\* fails); p is not usable afterwards and a non-null result is a live block.
C16_ZeroSizeRealloc ==
  (wlast.fn = "realloc" /\ wlast.p # NULL /\ wlast.s = 0) =>
     /\ Cardinality(CallsTo("free")) = 1
     /\ \A f \in CallsTo("free") : wlast.ops[f].arg = wlast.p
     /\ wlast.entry \in ZeroFriendly => (wlast.ret = NULL /\ CallsTo("malloc") = {})
     /\ wlast.entry \notin ZeroFriendly =>
          /\ Cardinality(CallsTo("malloc")) = 1
          /\ \A m \in CallsTo("malloc") : wlast.ops[m].arg = 1 /\ wlast.ops[m].res = wlast.ret
     /\ wlast.ret # NULL => wheap[wlast.ret].st = "live"
     /\ wheap[wlast.p].st # "live" \/ wlast.ret = wlast.p

\* C17: calloc(n, s) returns null without calling the allocator exactly when
\* n*s does not fit in size_t; a pair whose product fits is never rejected by
\* the overflow test and the allocator is asked for exactly n*s bytes.
C17_CallocOverflow ==
  wlast.fn = "calloc" =>
     /\ wlast.n * wlast.s > SizeMax => (wlast.ret = NULL /\ wlast.ops = <<>>)
     /\ wlast.n * wlast.s <= SizeMax =>
          /\ CallsTo("malloc") = {1}
          /\ wlast.ops[1].arg = wlast.n * wlast.s
          /\ wlast.ops[1].res = wlast.ret

\* calloc(SIZE_MAX, SIZE_MAX), whose wrapped product is 1, was rejected with
\* no allocation while a block was free to hand out
C17_Witness ==
  /\ wlast.fn = "calloc" /\ wlast.n = SizeMax /\ wlast.s = SizeMax
  /\ Wrap(wlast.n * wlast.s) = 1
  /\ wlast.ret = NULL /\ wlast.ops = <<>>
  /\ FreeSlots(wheap) # {} /\ LiveSlots(wheap) # {}

\* C18: reallocarray(ptr, n, size) and _recalloc(ptr, n, size) with n*size
\* not fitting in size_t return null, ask the allocator for nothing and
\* leave ptr live and unmodified.
C18_ArrayOverflow ==
  (wlast.fn = "array" /\ wlast.n * wlast.s > SizeMax) =>
     /\ wlast.ret = NULL
     /\ CallsTo("malloc") = {} /\ CallsTo("free") = {}
     /\ wlast.p # NULL => wheap[wlast.p] = wlast.pre

\* C19: every calloc(n, s) that returns non-null returns a live block whose
\* first n*s bytes are all zero, also when the allocator handed back a block
\* that was released with non-zero contents.
C19_CallocZeroed ==
  (wlast.fn = "calloc" /\ wlast.ret # NULL) =>
     /\ wheap[wlast.ret].st = "live"
     /\ wheap[wlast.ret].usize >= wlast.n * wlast.s
     /\ \A i \in 1..(wlast.n * wlast.s) : wheap[wlast.ret].data[i] = 0

\* calloc got a dirty block larger than n*s: the n*s bytes are zero and the
\* byte after them still has the old contents
C19_Witness ==
  /\ wlast.fn = "calloc" /\ wlast.ret # NULL
  /\ wlast.n * wlast.s = 1 /\ wlast.n = 1
  /\ wlast.ops[1].note = "dirty"
  /\ wheap[wlast.ret].usize = MaxUsable
  /\ wheap[wlast.ret].data[1] = 0 /\ wheap[wlast.ret].data[MaxUsable] = 1

C21_ReleaseReturnsBlock ==
  (wlast.fn = "free" /\ wlast.p # NULL) =>
     /\ wlast.pre.st = "live"
     /\ Len(wlast.ops) = 1 /\ wlast.ops[1].op = "free" /\ wlast.ops[1].arg = wlast.p
     /\ wheap[wlast.p].st # "live"

\* positions in the last call's record where it called the allocator
AllocatorCalls ==
  {i \in 1..Len(wlast.ops) : wlast.ops[i].op \in {"malloc", "memalign", "free"}}

\* the value *memptr holds after the last call: the last store, or what it
\* held before
MemptrAfter ==
  IF CallsTo("*memptr") = {} THEN wlast.p
  ELSE wlast.ops[CHOOSE i \in CallsTo("*memptr") : \A j \in CallsTo("*memptr") : j <= i].arg

IsPowerOfTwo(a) == \E k \in 0..(SizeBits - 1) : a = 2^k

\* a valid alignment of posix_memalign: a power of two and a multiple of
\* sizeof(void*)
ValidAlignment(a) == IsPowerOfTwo(a) /\ a % PtrSize = 0

\* C22 as stated: posix_memalign returns EINVAL without calling the
\* allocator exactly when the alignment is invalid; for a valid alignment
\* it returns ENOMEM when the aligned allocation fails (returns null), and
\* on success stores the pointer in *memptr and returns zero.
C22_PosixMemalign ==
  wlast.fn = "posix_memalign" =>
     /\ ~ValidAlignment(wlast.n) => (wlast.ret = EINVAL /\ AllocatorCalls = {})
     /\ ValidAlignment(wlast.n) =>
          /\ Cardinality(AllocatorCalls) = 1
          /\ \A i \in AllocatorCalls :
               /\ wlast.ops[i].op = "memalign" /\ wlast.ops[i].arg = <<wlast.n, wlast.s>>
               /\ wlast.ops[i].res = NULL => wlast.ret = ENOMEM
               /\ wlast.ops[i].res # NULL => (wlast.ret = 0 /\ MemptrAfter = wlast.ops[i].res)

\* C22 amended: as above, but a null result of the aligned allocation is
\* reported as ENOMEM when the size is non-zero; for size zero a null result
\* is either ENOMEM or success with null in *memptr.
C22_PosixMemalignNonZero ==
  wlast.fn = "posix_memalign" =>
     /\ ~ValidAlignment(wlast.n) => (wlast.ret = EINVAL /\ AllocatorCalls = {})
     /\ ValidAlignment(wlast.n) =>
          /\ Cardinality(AllocatorCalls) = 1
          /\ \A i \in AllocatorCalls :
               /\ wlast.ops[i].op = "memalign" /\ wlast.ops[i].arg = <<wlast.n, wlast.s>>
               /\ (wlast.ops[i].res = NULL /\ wlast.s # 0) => wlast.ret = ENOMEM
               /\ (wlast.ops[i].res = NULL /\ wlast.s = 0) =>
                    (wlast.ret \in {0, ENOMEM} /\ MemptrAfter = NULL)
               /\ wlast.ops[i].res # NULL => (wlast.ret = 0 /\ MemptrAfter = wlast.ops[i].res)

\* posix_memalign with alignment sizeof(void*) succeeded and replaced the
\* pointer *memptr held by another block
C22_Witness ==
  /\ wlast.fn = "posix_memalign" /\ wlast.entry = "alloc8_common_posix_memalign"
  /\ wlast.n = PtrSize /\ wlast.s = MaxUsable
  /\ wlast.ret = 0 /\ wlast.p # NULL
  /\ MemptrAfter # wlast.p /\ MemptrAfter # NULL /\ wheap[MemptrAfter].st = "live"

\* C23: every call the wrappers make to xxmemalign passes an alignment
\* that is a power of two, whatever alignment the caller supplied.
C23_AlignmentPowerOfTwo ==
  \A i \in CallsTo("memalign") : IsPowerOfTwo(wlast.ops[i].arg[1])

\* C24: the four posix_memalign implementations are observationally
\* identical: on the same heap, for every alignment and size and every
\* allocator outcome, they return the same code, make the same stores to
\* *memptr and the same allocator calls.
C24_PosixMemalignVariantsAgree ==
  [][\A e1 \in PosixEntries, old \in Slots \cup {NULL}, alignment \in SizeT, size \in SizeT :
       PosixMemalign(e1, old, alignment, size) =>
         \A e2 \in PosixEntries :
           \E o \in posix_memalign(wheap, e2, alignment, size) :
              o.ret = wlast'.ret /\ o.ops = wlast'.ops /\ o.h = wheap']_vars

\* C29: pvalloc passes to xxmemalign the page size as alignment and a size
\* that is a multiple of the page size and not smaller than the requested
\* size, also for a requested size within one page of SIZE_MAX.
C29_PvallocRoundsUp ==
  (wlast.fn = "aligned" /\ wlast.entry = "pvalloc") =>
     /\ Len(wlast.ops) = 1 /\ wlast.ops[1].op = "memalign"
     /\ wlast.ops[1].arg[1] = PageSize
     /\ wlast.ops[1].arg[2] % PageSize = 0
     /\ wlast.ops[1].arg[2] >= wlast.s

\* the last call was one a uniform-semantics wrapper rejects: an overflowing
\* calloc or reallocarray, posix_memalign with an invalid alignment,
\* aligned_alloc with alignment zero or a size that is not a multiple of the
\* alignment, strdup of a null string
Rejected(c) ==
  \/ c.fn = "calloc" /\ c.n * c.s > SizeMax
  \/ c.fn = "array" /\ c.entry # "_recalloc" /\ c.n * c.s > SizeMax
  \/ c.fn = "posix_memalign" /\ ~ValidAlignment(c.n)
  \/ c.fn = "aligned" /\ c.entry = "aligned_alloc" /\ (c.n = 0 \/ c.s % c.n # 0)
  \/ c.fn = "strdup" /\ c.n = 0

\* the result a rejecting wrapper returns
Refusal(c) == IF c.fn = "posix_memalign" THEN EINVAL ELSE NULL

\* C25 as stated: a wrapper that rejects its input returns null or the
\* error code and does nothing else: no allocator call, no store to errno
\* or to the caller's output pointer, no change of the heap.
C25_RejectionHasNoEffect ==
  [][Rejected(wlast') =>
       (wlast'.ret = Refusal(wlast') /\ wlast'.ops = <<>> /\ wheap' = wheap)]_vars

\* C25 amended: a wrapper that rejects its input returns null or the error
\* code, makes no allocator call and leaves the heap as it was; the only
\* stores it makes are errno = ENOMEM by reallocarray and *memptr = null by
\* posix_memalign.
C25_RejectionCallsNothing ==
  [][Rejected(wlast') =>
       /\ wlast'.ret = Refusal(wlast')
       /\ wheap' = wheap
       /\ \A i \in 1..Len(wlast'.ops) :
            \/ wlast'.fn = "array" /\ wlast'.ops[i] = StoreErrno(ENOMEM)
            \/ wlast'.fn = "posix_memalign" /\ wlast'.ops[i] = StoreMemptr(NULL)]_vars

\* aligned_alloc(2, 1), whose size is not a multiple of the alignment, was
\* rejected while a block was free to hand out and another was live
C25_Witness ==
  /\ wlast.fn = "aligned" /\ wlast.entry = "aligned_alloc"
  /\ wlast.n = 2 /\ wlast.s = 1
  /\ wlast.ret = NULL /\ wlast.ops = <<>>
  /\ FreeSlots(wheap) # {} /\ LiveSlots(wheap) # {}

\* positions of event e in the history of thread t
Events(t, e) == {i \in 1..Len(hist[t]) : hist[t][i] = e}

\* C26: in the new thread the trampoline releases the wrapper record only
\* after the allocator's xxthread_init has run: no release is issued from a
\* trampolined thread whose start hook has not yet run.
C26_ReleaseAfterInit ==
  [][\A t \in Threads :
       (has_init /\ pc[t] = "tr_read" /\ warg[t] # NULL
          /\ recFrees'[warg[t]] > recFrees[warg[t]])
       => Events(t, "init") # {}]_vars

\* C27: on every thread xxthread_cleanup is invoked only if xxthread_init
\* has run before on that thread; pthread_exit does not run the exit hook on
\* the main thread, on a thread created while the hooks were not ready or on
\* a thread created through the direct-creation fallback.
C27_CleanupOnlyAfterInit ==
  (platform = "posix" /\ has_init) =>
     \A t \in Threads : \A i \in Events(t, "cleanup") :
        \E j \in Events(t, "init") : j < i

\* C28: whenever the redirect flag is false, a hooked entry point invoked
\* through a patched import slot calls the function this slot pointed to
\* before it was patched, also when slots of several CRT libraries are
\* patched; in particular it does not reach a Bridge function.
C28_DisabledCallsOriginal ==
  ~g_redirectEnabled =>
     \A d \in imported : \A f \in Funcs :
        iat[d] = "hook" => SlotTarget(d, f) = d

\* C30: ANSIWrapper::realloc(ptr, sz) with non-null ptr and sz > 0 returns a
\* non-null pointer only to a live block whose usable size is at least sz;
\* when rounding sz up to the minimum alignment would overflow size_t it
\* returns null and leaves ptr live and unmodified, as ANSIWrapper::malloc
\* refuses such a size.
C30_ReallocRoundingOverflow ==
  (wlast.fn = "ANSIWrapper::realloc" /\ wlast.p # NULL /\ wlast.s > 0) =>
     /\ wlast.ret # NULL =>
          (wheap[wlast.ret].st = "live" /\ wheap[wlast.ret].usize >= wlast.s)
     /\ wlast.s + MinAlignment - 1 > SizeMax =>
          (wlast.ret = NULL /\ wheap[wlast.p] = wlast.pre)

(***************************************************************************)
(* Specifications                                                          *)
(***************************************************************************)

InitThreads ==
  ThreadsInit /\ RedirectStart({}) /\ DetoursInit /\ ForkInit /\ SingletonInit /\ WrappersInit

SpecThreads == InitThreads /\ [][NextThreads]_vars

InitRedirect ==
  RedirectInit /\ ThreadsIdle /\ DetoursInit /\ ForkInit /\ SingletonInit /\ WrappersInit

SpecRedirect == InitRedirect /\ [][NextRedirect]_vars

InitDetours ==
  DetoursInit /\ ThreadsIdle /\ RedirectStart({}) /\ ForkInit /\ SingletonInit /\ WrappersInit

SpecDetours == InitDetours /\ [][NextDetours]_vars

InitFork ==
  ForkInit /\ ThreadsIdle /\ RedirectStart({}) /\ DetoursInit /\ SingletonInit /\ WrappersInit

SpecFork == InitFork /\ [][NextFork]_vars

InitSingleton ==
  SingletonInit /\ ThreadsIdle /\ RedirectStart({}) /\ DetoursInit /\ ForkInit /\ WrappersInit

SpecSingleton == InitSingleton /\ [][NextSingleton]_vars

InitWrappers ==
  WrappersInit /\ ThreadsIdle /\ RedirectStart({}) /\ DetoursInit /\ ForkInit /\ SingletonInit

SpecWrappers == InitWrappers /\ [][NextWrappers]_vars

SpecArith == InitWrappers /\ [][NextArith]_vars

SpecAligned == InitWrappers /\ [][NextAligned]_vars

SpecANSI == InitWrappers /\ [][NextANSI]_vars

====
